---- MODULE Spec2Model ----
(***************************************************************************)
(* Cross-chain hash-timelocked swap between Sui and Ethereum:              *)
(*   - the hash compatibility layer used by the TypeScript scripts,        *)
(*   - the two Sui Move modules fusion_locker::shared_locker and           *)
(*     fusion_locker::locker,                                              *)
(*   - the lock-recording scripts and the persisted secretMapping.json,    *)
(*   - the bidirectional relayer (scripts/relayer.ts).                     *)
(***************************************************************************)
EXTENDS Integers, Sequences, FiniteSets, TLC

(***************************************************************************)
(* Bounds of the model.                                                    *)
(***************************************************************************)
\* number of locker objects ever created on Sui
MaxLockers == 1
\* number of clock steps, each of one lock duration
MaxTime == 2
\* number of revelation events delivered to the relayer
MaxDeliveries == 2

\* number of swaps for which maker.ts is run
MaxSwaps == 2

(***************************************************************************)
(* Hash compatibility layer.                                               *)
(* A digest is modelled as the pair <<algorithm, preimage bytes>>: an      *)
(* ideal (collision free) hash, different for different algorithms.        *)
(***************************************************************************)
\* randomBytes(32): a secret is 32 bytes
SecretLen == 32
\* the secrets the model draws from: two values of randomBytes(32)
SecretA == [i \in 1..SecretLen |->
              <<17, 34, 51, 68, 85, 102, 119, 136, 153, 0, 170, 187, 204, 221, 238, 255,
                0, 17, 34, 51, 68, 85, 102, 119, 136, 153, 170, 187, 204, 221, 238, 255>>[i]]
SecretB == [i \in 1..SecretLen |-> <<202, 254, 186, 190>>[((i - 1) % 4) + 1]]
Secrets == {SecretA, SecretB}

\* @noble/hashes blake2b(secret, {dkLen: 32}); Move hash::blake2b256
blake2b(bytes) == <<"blake2b256", bytes>>
\* @noble/hashes sha3_256(secret); Move hash::sha3_256
sha3_256(bytes) == <<"sha3_256", bytes>>
\* keccak256 over a byte string (ethers.keccak256, Solidity keccak256)
keccak256(bytes) == <<"keccak256", bytes>>

HexChars == <<"0", "1", "2", "3", "4", "5", "6", "7",
              "8", "9", "a", "b", "c", "d", "e", "f">>

\* Buffer.from(bytes).toString("hex"): two lower-case hex characters per byte
RECURSIVE toHex(_)
toHex(bytes) ==
    IF bytes = <<>> THEN <<>>
    ELSE <<HexChars[(Head(bytes) \div 16) + 1], HexChars[(Head(bytes) % 16) + 1]>>
         \o toHex(Tail(bytes))

\* "0x" + Buffer.from(secret).toString("hex")
hexString(secret) == <<"0", "x">> \o toHex(secret)

HexValue(c) == CHOOSE v \in 0..15 : HexChars[v + 1] = c

\* Buffer.from(secretHex.slice(2), "hex")
RECURSIVE fromHexDigits(_)
fromHexDigits(chars) ==
    IF Len(chars) < 2 THEN <<>>
    ELSE <<HexValue(chars[1]) * 16 + HexValue(chars[2])>>
         \o fromHexDigits(SubSeq(chars, 3, Len(chars)))

hexBytes(secretHex) == fromHexDigits(SubSeq(secretHex, 3, Len(secretHex)))

\* code point of one character of a hex string ("0".."9" -> 48..57,
\* "a".."f" -> 97..102, "x" -> 120)
CharCode(c) ==
    IF c = "x" THEN 120
    ELSE IF HexValue(c) < 10 THEN 48 + HexValue(c) ELSE 87 + HexValue(c)

\* ethers.toUtf8Bytes(str) on an ASCII string
toUtf8Bytes(str) == [i \in 1..Len(str) |-> CharCode(str[i])]

\* ethers.id(str) = keccak256(toUtf8Bytes(str))
idOfString(str) == keccak256(toUtf8Bytes(str))

\* the three conversions, tabulated once over the secrets of the model
SecretHexes == {hexString(s) : s \in Secrets}
secretHexTable == [s \in Secrets |-> hexString(s)]
hexBytesTable == [h \in SecretHexes |-> hexBytes(h)]
idTable == [h \in SecretHexes |-> idOfString(h)]
secretHexOf(secret) == secretHexTable[secret]
bytesOfHex(secretHex) == hexBytesTable[secretHex]
ethers_id(str) == idTable[str]

hashSecret_sha3(secret) == sha3_256(secret)

\* relayer.ts hashSecret(secret)
hashSecret(secret) == blake2b(secret)


(***************************************************************************)
(* Parties and Sui state.                                                  *)
(***************************************************************************)
\* the two parties of a swap; the relayer signs with the resolver's keys
Addr == {"maker", "resolver"}

\* const durationMs = 60 * 60 * 1000 of maker.ts and resolver_sui.ts
durationMs == 60 * 60 * 1000

VARIABLES
    suiClock,       \* clock::timestamp_ms of the shared clock object
    sharedLockers,  \* live shared_locker::SharedLocker objects, by object id
    ownedLockers,   \* live locker::Locker objects, by object id, with their owner
    nextId,         \* next fresh object id (sui::object::new)
    coinOwner,      \* holder of every coin object: an address, or "locked"
    suiEvents,      \* events emitted on Sui, in order
    settled,        \* per locker id: the successful claim / refund calls, in order
    lockedAt        \* per locker id: what the lock call stored (history)

suiVars == <<suiClock, sharedLockers, ownedLockers, nextId, coinOwner,
             suiEvents, settled, lockedAt>>

\* one SUI coin object per party
CoinIds == {"makerCoin", "resolverCoin"}
LockerIds == 1..MaxLockers
Durations == {durationMs}
\* hashlocks a locking party may hand in: any digest of any secret
Hashlocks == {blake2b(s) : s \in Secrets} \cup {sha3_256(s) : s \in Secrets}

Deleted_kept(objects, id) == objects

\* the object map without the deleted object (sui::object::delete)
Deleted(objects, id) == [i \in DOMAIN objects \ {id} |-> objects[i]]

(***************************************************************************)
(* module fusion_locker::shared_locker                                     *)
(* A transaction that aborts changes nothing.                              *)
(***************************************************************************)
\* maker_lock: the SharedLocker built from the arguments, then share_object
maker_lock(sender, coins, hashlock, duration_ms, resolver) ==
    /\ coinOwner[coins] = sender
    /\ LET unlock_date == suiClock + duration_ms
           locker == [hashlock |-> hashlock, unlock_date |-> unlock_date,
                      coin |-> coins, maker |-> sender, resolver |-> resolver]
       IN /\ sharedLockers' = sharedLockers @@ (nextId :> locker)
          /\ lockedAt' = lockedAt @@
                (nextId :> [module |-> "shared_locker", hashlock |-> hashlock,
                            unlock_date |-> unlock_date, coin |-> coins,
                            maker |-> sender, resolver |-> resolver,
                            now |-> suiClock, duration_ms |-> duration_ms])
    /\ settled' = settled @@ (nextId :> <<>>)
    /\ coinOwner' = [coinOwner EXCEPT ![coins] = "locked"]
    /\ nextId' = nextId + 1
    /\ UNCHANGED <<suiClock, ownedLockers, suiEvents>>

claim_shared_asserts_noHash(locker, secret, sender, now) ==
    now < locker.unlock_date

\* the two assert! of claim_shared (the sender check is commented out)
claim_shared_asserts(locker, secret, sender, now) ==
    /\ now < locker.unlock_date
    /\ sha3_256(secret) = locker.hashlock

\* transfer::public_transfer(coin, receiver) of claim_shared
claim_shared_payee(locker, receiver) == receiver

claim_shared(sender, id, secret, receiver) ==
    IF /\ id \in DOMAIN sharedLockers
       /\ claim_shared_asserts(sharedLockers[id], secret, sender, suiClock)
    THEN /\ sharedLockers' = Deleted(sharedLockers, id)
         /\ coinOwner' = [coinOwner EXCEPT ![sharedLockers[id].coin] =
                                claim_shared_payee(sharedLockers[id], receiver)]
         /\ suiEvents' = Append(suiEvents, [type |-> "shared_locker::SrcSecretRevealed",
                                            secret |-> secret, locker |-> id])
         /\ settled' = [settled EXCEPT ![id] = Append(@, [op |-> "claim",
                                to |-> claim_shared_payee(sharedLockers[id], receiver)])]
         /\ UNCHANGED <<suiClock, ownedLockers, nextId, lockedAt>>
    ELSE UNCHANGED suiVars

\* the two assert! of refund_shared
refund_shared_asserts(locker, sender, now) ==
    /\ sender = locker.maker
    /\ now >= locker.unlock_date

refund_shared(sender, id) ==
    IF /\ id \in DOMAIN sharedLockers
       /\ refund_shared_asserts(sharedLockers[id], sender, suiClock)
    THEN /\ sharedLockers' = Deleted(sharedLockers, id)
         /\ coinOwner' = [coinOwner EXCEPT ![sharedLockers[id].coin] = sharedLockers[id].maker]
         /\ settled' = [settled EXCEPT ![id] = Append(@, [op |-> "refund",
                                to |-> sharedLockers[id].maker])]
         /\ UNCHANGED <<suiClock, ownedLockers, nextId, lockedAt, suiEvents>>
    ELSE UNCHANGED suiVars

(***************************************************************************)
(* module fusion_locker::locker                                            *)
(* lock transfers the Locker object to the resolver: it is an address-     *)
(* owned object, and claim / refund take it by value, so a transaction     *)
(* can only pass it when its sender owns it.                               *)
(***************************************************************************)
lock_noDuration(sender, coins, hashlock, duration_ms, resolver) ==
    /\ coinOwner[coins] = sender
    /\ LET unlock_date == suiClock
           locker == [hashlock |-> hashlock, unlock_date |-> unlock_date,
                      coin |-> coins, maker |-> sender, owner |-> resolver]
       IN /\ ownedLockers' = ownedLockers @@ (nextId :> locker)
          /\ lockedAt' = lockedAt @@
                (nextId :> [module |-> "locker", hashlock |-> hashlock,
                            unlock_date |-> unlock_date, coin |-> coins,
                            maker |-> sender, resolver |-> resolver,
                            now |-> suiClock, duration_ms |-> duration_ms])
    /\ settled' = settled @@ (nextId :> <<>>)
    /\ coinOwner' = [coinOwner EXCEPT ![coins] = "locked"]
    /\ nextId' = nextId + 1
    /\ UNCHANGED <<suiClock, sharedLockers, suiEvents>>

lock(sender, coins, hashlock, duration_ms, resolver) ==
    /\ coinOwner[coins] = sender
    /\ LET unlock_date == suiClock + duration_ms
           locker == [hashlock |-> hashlock, unlock_date |-> unlock_date,
                      coin |-> coins, maker |-> sender, owner |-> resolver]
       IN /\ ownedLockers' = ownedLockers @@ (nextId :> locker)
          /\ lockedAt' = lockedAt @@
                (nextId :> [module |-> "locker", hashlock |-> hashlock,
                            unlock_date |-> unlock_date, coin |-> coins,
                            maker |-> sender, resolver |-> resolver,
                            now |-> suiClock, duration_ms |-> duration_ms])
    /\ settled' = settled @@ (nextId :> <<>>)
    /\ coinOwner' = [coinOwner EXCEPT ![coins] = "locked"]
    /\ nextId' = nextId + 1
    /\ UNCHANGED <<suiClock, sharedLockers, suiEvents>>

\* an owned object is an input of a transaction only if the sender owns it
ownedInput(locker, sender) == locker.owner = sender

claim_asserts_noDeadline(locker, secret, now) ==
    blake2b(secret) = locker.hashlock

\* the two assert! of locker::claim
claim_asserts(locker, secret, now) ==
    /\ now < locker.unlock_date
    /\ blake2b(secret) = locker.hashlock

claim(sender, id, secret, receiver) ==
    IF /\ id \in DOMAIN ownedLockers
       /\ ownedInput(ownedLockers[id], sender)
       /\ claim_asserts(ownedLockers[id], secret, suiClock)
    THEN /\ ownedLockers' = Deleted(ownedLockers, id)
         /\ coinOwner' = [coinOwner EXCEPT ![ownedLockers[id].coin] = receiver]
         /\ suiEvents' = Append(suiEvents, [type |-> "locker::SecretRevealed",
                                            secret |-> secret, locker |-> id])
         /\ settled' = [settled EXCEPT ![id] = Append(@, [op |-> "claim", to |-> receiver])]
         /\ UNCHANGED <<suiClock, sharedLockers, nextId, lockedAt>>
    ELSE UNCHANGED suiVars

refund_asserts_noDeadline(locker, sender, now) == TRUE

\* the one assert! of locker::refund (there is no sender check)
refund_asserts(locker, sender, now) == now >= locker.unlock_date

refund(sender, id) ==
    IF /\ id \in DOMAIN ownedLockers
       /\ ownedInput(ownedLockers[id], sender)
       /\ refund_asserts(ownedLockers[id], sender, suiClock)
    THEN /\ ownedLockers' = Deleted(ownedLockers, id)
         /\ coinOwner' = [coinOwner EXCEPT ![ownedLockers[id].coin] = ownedLockers[id].maker]
         /\ settled' = [settled EXCEPT ![id] = Append(@, [op |-> "refund",
                                to |-> ownedLockers[id].maker])]
         /\ UNCHANGED <<suiClock, sharedLockers, nextId, lockedAt, suiEvents>>
    ELSE UNCHANGED suiVars

\* the Sui clock advances, observed in steps of one lock duration
SuiTick ==
    /\ suiClock < MaxTime * durationMs
    /\ suiClock' = suiClock + durationMs
    /\ UNCHANGED <<sharedLockers, ownedLockers, nextId, coinOwner, suiEvents,
                   settled, lockedAt>>

SuiInit ==
    /\ suiClock = 0
    /\ sharedLockers = <<>>
    /\ ownedLockers = <<>>
    /\ nextId = 1
    /\ coinOwner = [c \in CoinIds |-> IF c = "makerCoin" THEN "maker" ELSE "resolver"]
    /\ suiEvents = <<>>
    /\ settled = <<>>
    /\ lockedAt = <<>>

\* any party may call any entry function of the two modules with any arguments
SuiCall ==
    \/ \E sender \in Addr, c \in CoinIds, h \in Hashlocks, d \in Durations, r \in Addr :
          nextId <= MaxLockers /\ maker_lock(sender, c, h, d, r)
    \/ \E sender \in Addr, id \in LockerIds, s \in Secrets, r \in Addr :
          claim_shared(sender, id, s, r)
    \/ \E sender \in Addr, id \in LockerIds : refund_shared(sender, id)
    \/ \E sender \in Addr, c \in CoinIds, h \in Hashlocks, d \in Durations, r \in Addr :
          nextId <= MaxLockers /\ lock(sender, c, h, d, r)
    \/ \E sender \in Addr, id \in LockerIds, s \in Secrets, r \in Addr :
          claim(sender, id, s, r)
    \/ \E sender \in Addr, id \in LockerIds : refund(sender, id)


(***************************************************************************)
(* Ethereum escrow (EscrowSrc / EscrowDst of the cross-chain-swap library  *)
(* and the EscrowFactory): the contracts are not part of this repository;  *)
(* they follow the escrow lifecycle Locked -> Claimed | Refunded.          *)
(***************************************************************************)
VARIABLES
    ethEscrows,     \* escrows on Ethereum, by address
    timelocks,      \* the timelocks word built by a deploy script
    balanceOf,      \* MockUSDC: the balance of each holder, in USDC
    escrow          \* the escrow clone of a forge test: <<>> or <<its state>>

\* the state of the forge scripts and tests
forgeVars == <<timelocks, balanceOf, escrow>>

\* block.timestamp, in seconds, of the same wall clock
ethNow == suiClock \div 1000

\* an escrow is created Locked with its hashlock and cancellation time
escrowCreated(address, hashlock, maker, taker, locker, cancellation) ==
    /\ ethEscrows' = (address :> [hashlock |-> hashlock, maker |-> maker, taker |-> taker,
                                  locker |-> locker, cancelAt |-> ethNow + cancellation,
                                  status |-> "Locked", logs |-> <<>>]) @@ ethEscrows
    /\ UNCHANGED forgeVars

\* the topic of an event: keccak256 of its signature
eventTopic(signature) == keccak256(signature)

\* the log of a withdrawal: event EscrowWithdrawal(bytes32 secret) of the escrow
\* interface that simulateComplete.ts declares
EscrowWithdrawal(secret) ==
    [topic |-> eventTopic("EscrowWithdrawal(bytes32)"), secret |-> secret]

\* withdraw(secret, immutables) goes through before the cancellation time when
\* keccak256(abi.encodePacked(secret)) is the hashlock
escrowWithdrawOk(address, secret) ==
    /\ address \in DOMAIN ethEscrows
    /\ ethEscrows[address].status = "Locked"
    /\ ethNow < ethEscrows[address].cancelAt
    /\ keccak256(secret) = ethEscrows[address].hashlock

escrowWithdraw(address, secret) ==
    IF escrowWithdrawOk(address, secret)
    THEN /\ ethEscrows' = [ethEscrows EXCEPT ![address].status = "Claimed",
                               ![address].logs = Append(@, EscrowWithdrawal(secret))]
         /\ UNCHANGED forgeVars
    ELSE UNCHANGED <<ethEscrows, forgeVars>>

\* cancel() goes through at or after the cancellation time, for the locking party
escrowCancelOk(caller, address) ==
    /\ address \in DOMAIN ethEscrows
    /\ ethEscrows[address].status = "Locked"
    /\ ethNow >= ethEscrows[address].cancelAt
    /\ caller = ethEscrows[address].locker

escrowCancel(caller, address) ==
    IF escrowCancelOk(caller, address)
    THEN /\ ethEscrows' = [ethEscrows EXCEPT ![address].status = "Refunded"]
         /\ UNCHANGED forgeVars
    ELSE UNCHANGED <<ethEscrows, forgeVars>>

(***************************************************************************)
(* Files shared by the scripts and the relayer.                            *)
(***************************************************************************)
VARIABLES
    generatedSecret,    \* ./generatedSecret.json: <<>> or <<the JSON object>>
    secretMapping,      \* ./secretMapping.json: hash key -> entry
    mappingTorn         \* ./secretMapping.json was left truncated by a writer
                        \* that died in writeFileSync: it does not parse

\* an optional field of a JSON object: <<>> when absent, <<value>> when present
Absent == <<>>

\* the three JSON shapes the scripts store under a hash key
lockerEntry(lockerId) ==
    [lockerId |-> <<lockerId>>, escrowAddress |-> Absent, immutables |-> Absent]
escrowEntry(escrowAddress, immutables) ==
    [lockerId |-> Absent, escrowAddress |-> <<escrowAddress>>, immutables |-> <<immutables>>]

\* mapping[key] = entry: the entry stored under the key is replaced
assign(mapping, key, entry) == (key :> entry) @@ mapping

\* the key of a hex string that is no digest of the model (mapping[secretHex])
rawKey(hex) == <<"raw", bytesOfHex(hex)>>



(***************************************************************************)
(* The lock-recording scripts. Every script runs once; a step of a script  *)
(* is one transaction or one group of file writes.                         *)
(***************************************************************************)
VARIABLES
    makerPc,        \* maker.ts: "start", "locked", "done"
    makerLocal,     \* maker.ts: <<>> or <<[secret, finalLockerId]>>
    dstPc,          \* deployDstEscrow.ts: "start", "deployed", "done"
    srcPc,          \* deploySrcEscrow.ts: "start", "deployed", "done"
    resolverPc,     \* resolver_sui.ts: "start", "locked", "persisted", "done"
    resolverLocal,  \* resolver_sui.ts: <<>> or <<lockerId>>
    findPc,         \* findAndClaimSharedLocker.ts: "start", "read", "persisted",
                    \* "done", "exited"
    scriptMapping   \* the local variable mapping of each script between its
                    \* readFileSync and its writeFileSync: <<>> or <<mapping>>

VARIABLES
    relayerUp,          \* the relayer process has loaded its module
    secretHashToEscrow, \* relayer.ts: the in-memory mapping
    handlers,           \* relayer.ts: one record per delivered event
    watch               \* relayer.ts statement by statement: position of the
                        \* module and of main, environment, subscriptions

ethVars == <<ethEscrows, forgeVars>>
fileVars == <<generatedSecret, secretMapping, mappingTorn>>
scriptVars == <<makerPc, makerLocal, dstPc, srcPc, resolverPc, resolverLocal, findPc,
               scriptMapping>>
relayerVars == <<relayerUp, secretHashToEscrow, handlers, watch>>
vars == <<suiVars, ethVars, fileVars, scriptVars, relayerVars>>

\* process.env.RESOLVER_ETH_ADDRESS of maker.ts
RESOLVER_ETH_ADDRESS == "resolver"

\* cancellation = 3600 seconds of deployDstEscrow.ts and deploySrcEscrow.ts
cancellation == 3600

\* maker.ts makerLock, up to the accepted lock transaction: the hashlock handed
\* to maker_lock is secretHashVec = Array.from(secretHashBlake)
makerLock_tx ==
    /\ makerPc = "start"
    /\ \E secret \in Secrets :
          /\ maker_lock("maker", "makerCoin", blake2b(secret), durationMs,
                        RESOLVER_ETH_ADDRESS)
          /\ makerLocal' = <<[secret |-> secret, finalLockerId |-> nextId]>>
    /\ makerPc' = "locked"
    /\ UNCHANGED <<ethVars, fileVars, dstPc, srcPc, resolverPc, resolverLocal, relayerVars, findPc, scriptMapping>>

\* the JSON object written to generatedSecret.json
secretJson(secret, lockerId) ==
    [secret |-> secretHexOf(secret),
     hash_sha3 |-> sha3_256(secret),
     hash_blake |-> blake2b(secret),
     hash_keccak |-> ethers_id(secretHexOf(secret)),
     lockerId |-> lockerId]

\* maker.ts makerLock, the two file writes
makerLock_persist ==
    /\ makerPc = "locked"
    /\ LET secret == makerLocal[1].secret
           finalLockerId == makerLocal[1].finalLockerId
           secretHashKeccak == ethers_id(secretHexOf(secret))
           secretBlakeHex == blake2b(secret)
       IN /\ generatedSecret' = <<secretJson(secret, finalLockerId)>>
          /\ secretMapping' = assign(assign(secretMapping, secretHashKeccak,
                                            lockerEntry(finalLockerId)),
                                     secretBlakeHex, lockerEntry(finalLockerId))
    /\ makerPc' = "done"
    /\ UNCHANGED <<suiVars, ethVars, mappingTorn, makerLocal, dstPc, srcPc, resolverPc,
                   resolverLocal,
                   relayerVars, findPc, scriptMapping>>

\* provider.getCoins({owner}): the coins of the signer, of which maker.ts takes
\* the largest
getCoins(owner) == {c \in CoinIds : coinOwner[c] = owner}

\* maker.ts makerLock up to the accepted lock transaction, run with the
\* SUI_KEYPAIR of any account that holds a coin
makerLock_txAs(sender) ==
    /\ makerPc = "start"
    /\ \E coin \in getCoins(sender), secret \in Secrets :
          /\ maker_lock(sender, coin, blake2b(secret), durationMs, RESOLVER_ETH_ADDRESS)
          /\ makerLocal' = <<[secret |-> secret, finalLockerId |-> nextId]>>
    /\ makerPc' = "locked"
    /\ UNCHANGED <<ethVars, fileVars, dstPc, srcPc, resolverPc, resolverLocal, relayerVars,
                   findPc, scriptMapping>>

\* maker.ts is run again, for another swap
makerAgain ==
    /\ makerPc = "done"
    /\ nextId <= MaxSwaps
    /\ makerPc' = "start"
    /\ makerLocal' = <<>>
    /\ UNCHANGED <<suiVars, ethVars, fileVars, dstPc, srcPc, resolverPc, resolverLocal,
                   relayerVars, findPc, scriptMapping>>

\* the immutables object of deployDstEscrow.ts (taker = wallet.address)
dstImmutables(secretInfo) ==
    [shape |-> "object", hashlock |-> secretInfo.hash_keccak,
     maker |-> "maker", taker |-> "resolver", cancellation |-> cancellation]

\* factory.addressOfEscrowDst(immutables)
addressOfEscrowDst(immutables) == "EscrowDst"

\* deployDstEscrow.ts main, up to the confirmed createDstEscrow transaction
deployDst_tx ==
    /\ dstPc = "start"
    /\ generatedSecret # <<>>
    /\ LET immutables == dstImmutables(generatedSecret[1])
       IN escrowCreated(addressOfEscrowDst(immutables), immutables.hashlock,
                        immutables.maker, immutables.taker, immutables.taker,
                        immutables.cancellation)
    /\ dstPc' = "deployed"
    /\ UNCHANGED <<suiVars, fileVars, makerPc, makerLocal, srcPc, resolverPc, resolverLocal,
                   relayerVars, findPc, scriptMapping>>

\* deployDstEscrow.ts main, the mapping update
deployDst_persist ==
    /\ dstPc = "deployed"
    /\ LET immutables == dstImmutables(generatedSecret[1])
       IN secretMapping' = assign(secretMapping, generatedSecret[1].hash_keccak,
                                  escrowEntry(addressOfEscrowDst(immutables), immutables))
    /\ dstPc' = "done"
    /\ UNCHANGED <<suiVars, ethVars, generatedSecret, mappingTorn, makerPc, makerLocal, srcPc, resolverPc,
                   resolverLocal, relayerVars, findPc, scriptMapping>>

\* the immutables object of deploySrcEscrow.ts (maker = taker = wallet.address)
srcImmutables(secretInfo) ==
    [shape |-> "object", hashlock |-> secretInfo.hash_keccak,
     maker |-> "maker", taker |-> "maker", cancellation |-> cancellation]

\* deploySrcEscrow.ts main, up to the funded EscrowSrc
deploySrc_tx ==
    /\ srcPc = "start"
    /\ generatedSecret # <<>>
    /\ LET immutables == srcImmutables(generatedSecret[1])
       IN escrowCreated("EscrowSrc", immutables.hashlock, immutables.maker,
                        immutables.taker, immutables.maker, immutables.cancellation)
    /\ srcPc' = "deployed"
    /\ UNCHANGED <<suiVars, fileVars, makerPc, makerLocal, dstPc, resolverPc, resolverLocal,
                   relayerVars, findPc, scriptMapping>>

\* deploySrcEscrow.ts main, the mapping update
deploySrc_persist ==
    /\ srcPc = "deployed"
    /\ secretMapping' = assign(secretMapping, generatedSecret[1].hash_keccak,
                               escrowEntry("EscrowSrc", srcImmutables(generatedSecret[1])))
    /\ srcPc' = "done"
    /\ UNCHANGED <<suiVars, ethVars, generatedSecret, mappingTorn, makerPc, makerLocal, dstPc, resolverPc,
                   resolverLocal, relayerVars, findPc, scriptMapping>>

\* resolver_sui.ts findLocker: a Locker object owned by the resolver, if any
findLocker == {id \in DOMAIN ownedLockers : ownedLockers[id].owner = "resolver"}

\* resolver_sui.ts, up to the locker id: an existing Locker of the resolver is
\* reused, else locker::lock is called with the BLAKE2b hash of the secret
resolverSui_lock ==
    /\ resolverPc = "start"
    /\ generatedSecret # <<>>
    /\ IF findLocker # {}
       THEN /\ \E id \in findLocker : resolverLocal' = <<id>>
            /\ UNCHANGED suiVars
       ELSE /\ lock("resolver", "resolverCoin",
                    blake2b(bytesOfHex(generatedSecret[1].secret)), durationMs, "resolver")
            /\ resolverLocal' = <<nextId>>
    /\ resolverPc' = "locked"
    /\ UNCHANGED <<ethVars, fileVars, makerPc, makerLocal, dstPc, srcPc, relayerVars, findPc, scriptMapping>>

\* resolver_sui.ts: mapping[hashBlake] = { lockerId }
resolverSui_persist ==
    /\ resolverPc = "locked"
    /\ secretMapping' = assign(secretMapping,
                               blake2b(bytesOfHex(generatedSecret[1].secret)),
                               lockerEntry(resolverLocal[1]))
    /\ resolverPc' = "persisted"
    /\ UNCHANGED <<suiVars, ethVars, generatedSecret, mappingTorn, makerPc, makerLocal, dstPc, srcPc,
                   resolverLocal, relayerVars, findPc, scriptMapping>>

\* resolver_sui.ts: locker::claim with the secret, paid to SUI_ADDRESS || resolverAddr
resolverSui_claim ==
    /\ resolverPc = "persisted"
    /\ \E receiver \in Addr :
          claim("resolver", resolverLocal[1], bytesOfHex(generatedSecret[1].secret), receiver)
    /\ resolverPc' = "done"
    /\ UNCHANGED <<ethVars, fileVars, makerPc, makerLocal, dstPc, srcPc, resolverLocal,
                   relayerVars, findPc, scriptMapping>>

\* completeSwap.ts main: claim_shared on the locker of generatedSecret.json, with
\* its secret, paid to the signer
completeSwap ==
    /\ generatedSecret # <<>>
    /\ \E signer \in Addr :
          claim_shared(signer, generatedSecret[1].lockerId,
                       bytesOfHex(generatedSecret[1].secret), signer)
    /\ UNCHANGED <<ethVars, fileVars, scriptVars, relayerVars>>

\* simulateComplete.ts main: withdraw on the escrow recorded under hash_keccak
simulateComplete ==
    /\ generatedSecret # <<>>
    /\ generatedSecret[1].hash_keccak \in DOMAIN secretMapping
    /\ secretMapping[generatedSecret[1].hash_keccak].escrowAddress # Absent
    /\ escrowWithdraw(secretMapping[generatedSecret[1].hash_keccak].escrowAddress[1],
                      bytesOfHex(generatedSecret[1].secret))
    /\ UNCHANGED <<suiVars, fileVars, scriptVars, relayerVars>>

\* a party asks for its funds back: refund on Sui, cancel on Ethereum
partyRefund ==
    /\ \/ \E sender \in Addr, id \in DOMAIN sharedLockers :
             refund_shared(sender, id) /\ UNCHANGED ethVars
       \/ \E sender \in Addr, id \in DOMAIN ownedLockers :
             refund(sender, id) /\ UNCHANGED ethVars
       \/ \E caller \in Addr, address \in DOMAIN ethEscrows :
             escrowCancel(caller, address) /\ UNCHANGED suiVars
    /\ UNCHANGED <<fileVars, scriptVars, relayerVars>>

(***************************************************************************)
(* The mapping updates of the scripts, file operation by file operation.   *)
(* readFileSync and writeFileSync are two operations on a file that other  *)
(* processes write too: another script can run between them. A script that *)
(* dies inside writeFileSync leaves the file truncated.                    *)
(***************************************************************************)
\* JSON.parse(fs.readFileSync(mappingPath)) of a script: the call throws on a
\* file that does not parse
readable == ~ mappingTorn

\* fs.writeFileSync(mappingPath, JSON.stringify(mapping)) returns
written(mapping) ==
    /\ secretMapping' = mapping
    /\ mappingTorn' = FALSE

\* the process dies after writeFileSync has truncated the file
torn ==
    /\ secretMapping' = <<>>
    /\ mappingTorn' = TRUE

\* maker.ts stops between the accepted lock transaction and its file writes:
\* process.exit(1) when no SharedLocker id is found in ten retries, a
\* rejected await, or the death of the process
makerLock_exit ==
    /\ makerPc = "locked"
    /\ makerPc' = "exited"
    /\ UNCHANGED <<suiVars, ethVars, fileVars, makerLocal, dstPc, srcPc, resolverPc,
                   resolverLocal, findPc, scriptMapping, relayerVars>>

\* maker.ts: generatedSecret.json is written and secretMapping.json is read
makerLock_read ==
    /\ makerPc = "locked"
    /\ generatedSecret' = <<secretJson(makerLocal[1].secret, makerLocal[1].finalLockerId)>>
    /\ IF readable
       THEN /\ scriptMapping' = [scriptMapping EXCEPT !.maker = <<secretMapping>>]
            /\ makerPc' = "read"
       ELSE /\ makerPc' = "exited"
            /\ UNCHANGED scriptMapping
    /\ UNCHANGED <<suiVars, ethVars, secretMapping, mappingTorn, makerLocal, dstPc, srcPc,
                   resolverPc, resolverLocal, findPc, relayerVars>>

\* maker.ts: the two assignments to mapping and writeFileSync
makerLock_write ==
    /\ makerPc = "read"
    /\ LET secret == makerLocal[1].secret
           finalLockerId == makerLocal[1].finalLockerId
           secretHashKeccak == ethers_id(secretHexOf(secret))
           secretBlakeHex == blake2b(secret)
       IN \/ /\ written(assign(assign(scriptMapping.maker[1], secretHashKeccak,
                                      lockerEntry(finalLockerId)),
                               secretBlakeHex, lockerEntry(finalLockerId)))
             /\ makerPc' = "done"
          \/ /\ torn
             /\ makerPc' = "exited"
    /\ scriptMapping' = [scriptMapping EXCEPT !.maker = <<>>]
    /\ UNCHANGED <<suiVars, ethVars, generatedSecret, makerLocal, dstPc, srcPc, resolverPc,
                   resolverLocal, findPc, relayerVars>>

\* deployDstEscrow.ts: secretMapping.json is read
deployDst_read ==
    /\ dstPc = "deployed"
    /\ IF readable
       THEN /\ scriptMapping' = [scriptMapping EXCEPT !.dst = <<secretMapping>>]
            /\ dstPc' = "read"
       ELSE /\ dstPc' = "exited"
            /\ UNCHANGED scriptMapping
    /\ UNCHANGED <<suiVars, ethVars, fileVars, makerPc, makerLocal, srcPc, resolverPc,
                   resolverLocal, findPc, relayerVars>>

\* deployDstEscrow.ts: mapping[secretHashKeccak] = {escrowAddress, immutables}
\* and writeFileSync
deployDst_write ==
    /\ dstPc = "read"
    /\ LET immutables == dstImmutables(generatedSecret[1])
       IN \/ /\ written(assign(scriptMapping.dst[1], generatedSecret[1].hash_keccak,
                               escrowEntry(addressOfEscrowDst(immutables), immutables)))
             /\ dstPc' = "done"
          \/ /\ torn
             /\ dstPc' = "exited"
    /\ scriptMapping' = [scriptMapping EXCEPT !.dst = <<>>]
    /\ UNCHANGED <<suiVars, ethVars, generatedSecret, makerPc, makerLocal, srcPc, resolverPc,
                   resolverLocal, findPc, relayerVars>>

\* the {} that findAndClaimSharedLocker.ts stores under a key with no entry
emptyEntry == [lockerId |-> Absent, escrowAddress |-> Absent, immutables |-> Absent]

\* findAndClaimSharedLocker.ts main: the SharedLocker created by the
\* transaction of generatedSecret.json is found and secretMapping.json is read
findAndClaim_read ==
    /\ findPc = "start"
    /\ generatedSecret # <<>>
    /\ IF readable
       THEN /\ scriptMapping' = [scriptMapping EXCEPT !.find = <<secretMapping>>]
            /\ findPc' = "read"
       ELSE /\ findPc' = "exited"
            /\ UNCHANGED scriptMapping
    /\ UNCHANGED <<suiVars, ethVars, fileVars, makerPc, makerLocal, dstPc, srcPc, resolverPc,
                   resolverLocal, relayerVars>>

\* findAndClaimSharedLocker.ts main: mapping[hashlockKeccak].lockerId is set in
\* the entry already there, or in a new one, and the file is written
findAndClaim_write ==
    /\ findPc = "read"
    /\ LET mapping == scriptMapping.find[1]
           hashlockKeccak == generatedSecret[1].hash_keccak
           entry == IF hashlockKeccak \in DOMAIN mapping THEN mapping[hashlockKeccak]
                                                          ELSE emptyEntry
           sharedLockerId == generatedSecret[1].lockerId
       IN \/ /\ written(assign(mapping, hashlockKeccak,
                               [entry EXCEPT !.lockerId = <<sharedLockerId>>]))
             /\ findPc' = "persisted"
          \/ /\ torn
             /\ findPc' = "exited"
    /\ scriptMapping' = [scriptMapping EXCEPT !.find = <<>>]
    /\ UNCHANGED <<suiVars, ethVars, generatedSecret, makerPc, makerLocal, dstPc, srcPc,
                   resolverPc, resolverLocal, relayerVars>>

\* findAndClaimSharedLocker.ts main: claim_shared with the secret of
\* generatedSecret.json, paid to SUI_ADDRESS || myAddress
findAndClaim_claim ==
    /\ findPc = "persisted"
    /\ \E signer \in Addr, receiver \in Addr :
          claim_shared(signer, generatedSecret[1].lockerId,
                       bytesOfHex(generatedSecret[1].secret), receiver)
    /\ findPc' = "done"
    /\ UNCHANGED <<ethVars, fileVars, makerPc, makerLocal, dstPc, srcPc, resolverPc,
                   resolverLocal, scriptMapping, relayerVars>>

(***************************************************************************)
(* scripts/relayer.ts. A revelation event is an input of the relayer: on   *)
(* either ledger any party can have an event with any secret emitted, and  *)
(* the transport may deliver an event more than once.                      *)
(***************************************************************************)
\* module load: secretHashToEscrow = JSON.parse(readFileSync(mappingPath)), and
\* the empty map when that throws; then main subscribes to both ledgers
loadMapping == IF readable THEN secretMapping ELSE <<>>

relayerStart ==
    /\ ~ relayerUp
    /\ relayerUp' = TRUE
    /\ secretHashToEscrow' = loadMapping
    /\ UNCHANGED <<suiVars, ethVars, fileVars, scriptVars, handlers, watch>>

\* secretHashToEscrow[key]: <<>> when undefined
lookup(key) ==
    IF key \in DOMAIN secretHashToEscrow THEN <<secretHashToEscrow[key]>> ELSE <<>>

\* a || b on two lookups
orElse(a, b) == IF a # <<>> THEN a ELSE b

\* escrow.withdraw(secretHex, immutables) encodes its tuple argument, declared
\* (address,address,uint256,uint256,uint256,bytes32) without component names,
\* from an array of six values only; any other value makes the call throw
encodesWithdraw(immutables) ==
    /\ immutables # Absent
    /\ immutables[1].shape = "array6"

submitSecretToEthereum_anyEntry(secret) ==
    LET secretHex == secretHexOf(secret)
        mapping == lookup(ethers_id(secretHex))
    IN IF mapping = <<>>
       THEN [src |-> "sui", secret |-> secret, pc |-> "skipped",
             mapping |-> mapping, sub |-> <<>>]
       ELSE [src |-> "sui", secret |-> secret, pc |-> "withdraw", mapping |-> mapping,
             sub |-> <<[ledger |-> "ethereum", target |-> mapping[1].escrowAddress,
                        secret |-> bytesOfHex(secretHex)]>>]

\* submitSecretToEthereum(secretHex), up to its first await on the ledger
submitSecretToEthereum_missThrows(secret) ==
    LET secretHex == secretHexOf(secret)
        secretHash == ethers_id(secretHex)
        mapping == lookup(secretHash)
    IN IF mapping = <<>>
       THEN [src |-> "sui", secret |-> secret, pc |-> "threw",
             mapping |-> mapping, sub |-> <<>>]
       ELSE IF mapping[1].escrowAddress = Absent \/ ~ encodesWithdraw(mapping[1].immutables)
       THEN [src |-> "sui", secret |-> secret, pc |-> "threw",
             mapping |-> mapping, sub |-> <<>>]
       ELSE [src |-> "sui", secret |-> secret, pc |-> "withdraw", mapping |-> mapping,
             sub |-> <<[ledger |-> "ethereum", target |-> mapping[1].escrowAddress,
                        secret |-> bytesOfHex(secretHex)]>>]

submitSecretToEthereum(secret) ==
    LET secretHex == secretHexOf(secret)
        secretHash == ethers_id(secretHex)
        mapping == lookup(secretHash)
    IN IF mapping = <<>>
       THEN [src |-> "sui", secret |-> secret, pc |-> "skipped",
             mapping |-> mapping, sub |-> <<>>]
       ELSE IF mapping[1].escrowAddress = Absent \/ ~ encodesWithdraw(mapping[1].immutables)
       THEN [src |-> "sui", secret |-> secret, pc |-> "threw",
             mapping |-> mapping, sub |-> <<>>]
       ELSE [src |-> "sui", secret |-> secret, pc |-> "withdraw", mapping |-> mapping,
             sub |-> <<[ledger |-> "ethereum", target |-> mapping[1].escrowAddress,
                        secret |-> bytesOfHex(secretHex)]>>]

\* watchSuiEvents onMessage: an event of the subscribed type arrives
watchSuiEvents_onMessage ==
    /\ relayerUp
    /\ Len(handlers) < MaxDeliveries
    /\ \E secret \in Secrets :
          handlers' = Append(handlers, submitSecretToEthereum(secret))
    /\ UNCHANGED <<suiVars, ethVars, fileVars, scriptVars, relayerUp, secretHashToEscrow, watch>>

\* the guard of submitSecretToSui: !mapping || !mapping.lockerId
hasLocker(mapping) == mapping # <<>> /\ mapping[1].lockerId # Absent

\* submitSecretToSui(secretHex), up to its first await (getObject)
submitSecretToSui_otherEntry(secretHex) ==
    LET secretBytes == bytesOfHex(secretHex)
        blake == hashSecret(secretBytes)
        others == {k \in DOMAIN secretHashToEscrow :
                      k # blake /\ secretHashToEscrow[k].lockerId # Absent}
        mapping == IF others # {} THEN lookup(CHOOSE k \in others : TRUE)
                   ELSE orElse(lookup(blake), lookup(rawKey(secretHex)))
    IN IF ~ hasLocker(mapping)
       THEN [src |-> "ethereum", secret |-> secretBytes, pc |-> "skipped",
             mapping |-> mapping, sub |-> <<>>]
       ELSE [src |-> "ethereum", secret |-> secretBytes, pc |-> "getObject",
             mapping |-> mapping, sub |-> <<>>]

submitSecretToSui(secretHex) ==
    LET secretBytes == bytesOfHex(secretHex)
        blake == hashSecret(secretBytes)
        mapping == orElse(lookup(blake), lookup(rawKey(secretHex)))
    IN IF ~ hasLocker(mapping)
       THEN [src |-> "ethereum", secret |-> secretBytes, pc |-> "skipped",
             mapping |-> mapping, sub |-> <<>>]
       ELSE [src |-> "ethereum", secret |-> secretBytes, pc |-> "getObject",
             mapping |-> mapping, sub |-> <<>>]

watchEthereumEvents_onLog_serial ==
    /\ relayerUp
    /\ Len(handlers) < MaxDeliveries
    /\ \A i \in DOMAIN handlers :
          handlers[i].pc \notin {"getObject", "signAndExecute", "withdraw"}
    /\ \E secret \in Secrets :
          handlers' = Append(handlers, submitSecretToSui(secretHexOf(secret)))
    /\ UNCHANGED <<suiVars, ethVars, fileVars, scriptVars, relayerUp, secretHashToEscrow, watch>>

\* watchEthereumEvents listener: a log with the SecretRevealed topic arrives
watchEthereumEvents_onLog ==
    /\ relayerUp
    /\ Len(handlers) < MaxDeliveries
    /\ \E secret \in Secrets :
          handlers' = Append(handlers, submitSecretToSui(secretHexOf(secret)))
    /\ UNCHANGED <<suiVars, ethVars, fileVars, scriptVars, relayerUp, secretHashToEscrow, watch>>

\* watchSuiEvents onMessage on an event whose parsedJson holds no secret
\* vector: Uint8Array.from throws and the catch of the handler logs it
watchSuiEvents_onMalformed ==
    /\ relayerUp
    /\ Len(handlers) < MaxDeliveries
    /\ handlers' = Append(handlers, [src |-> "sui", secret |-> <<>>, pc |-> "threw",
                                     mapping |-> <<>>, sub |-> <<>>])
    /\ UNCHANGED <<suiVars, ethVars, fileVars, scriptVars, relayerUp, secretHashToEscrow, watch>>

\* watchEthereumEvents listener on a log that carries the topic and does not
\* decode: parseLog throws, or returns null and parsed.args throws
watchEthereumEvents_onMalformed ==
    /\ relayerUp
    /\ Len(handlers) < MaxDeliveries
    /\ handlers' = Append(handlers, [src |-> "ethereum", secret |-> <<>>, pc |-> "threw",
                                     mapping |-> <<>>, sub |-> <<>>])
    /\ UNCHANGED <<suiVars, ethVars, fileVars, scriptVars, relayerUp, secretHashToEscrow, watch>>

relayerResume_unhandled(i) ==
    LET h == handlers[i]
        goto(pc) == handlers' = [handlers EXCEPT ![i].pc = pc]
    IN /\ h.pc \in {"getObject", "signAndExecute", "withdraw"}
       /\ CASE h.pc = "getObject" ->
                 /\ \/ goto("threw") /\ relayerUp' = FALSE
                    \/ /\ handlers' = [handlers EXCEPT ![i].pc = "signAndExecute",
                             ![i].sub = <<[ledger |-> "sui", target |-> h.mapping[1].lockerId,
                                           secret |-> h.secret]>>]
                       /\ UNCHANGED relayerUp
                 /\ UNCHANGED <<suiVars, ethVars>>
            [] h.pc = "signAndExecute" ->
                 /\ \/ /\ \E receiver \in Addr :
                             claim_shared("resolver", h.sub[1].target[1], h.secret, receiver)
                       /\ goto("done")
                       /\ UNCHANGED relayerUp
                    \/ UNCHANGED suiVars /\ goto("failed") /\ relayerUp' = FALSE
                 /\ UNCHANGED ethVars
            [] h.pc = "withdraw" ->
                 /\ IF escrowWithdrawOk(h.sub[1].target[1], h.secret)
                    THEN \/ escrowWithdraw(h.sub[1].target[1], h.secret) /\ goto("done")
                            /\ UNCHANGED relayerUp
                         \/ UNCHANGED ethVars /\ goto("threw") /\ relayerUp' = FALSE
                    ELSE UNCHANGED ethVars /\ goto("threw") /\ relayerUp' = FALSE
                 /\ UNCHANGED suiVars
       /\ UNCHANGED <<fileVars, scriptVars, secretHashToEscrow, watch>>

\* the promise a handler awaits settles
relayerResume(i) ==
    LET h == handlers[i]
        goto(pc) == handlers' = [handlers EXCEPT ![i].pc = pc]
    IN /\ h.pc \in {"getObject", "signAndExecute", "withdraw"}
       /\ CASE h.pc = "getObject" ->
                 \* getObject rejects, or resolves and the claim_shared transaction
                 \* is handed to signAndExecuteTransaction
                 /\ \/ goto("threw")
                    \/ handlers' = [handlers EXCEPT ![i].pc = "signAndExecute",
                          ![i].sub = <<[ledger |-> "sui", target |-> h.mapping[1].lockerId,
                                        secret |-> h.secret]>>]
                 /\ UNCHANGED <<suiVars, ethVars>>
            [] h.pc = "signAndExecute" ->
                 \* the transaction is executed (receiver: SUI_ADDRESS), or the call
                 \* rejects and the catch of submitSecretToSui logs it
                 /\ \/ /\ \E receiver \in Addr :
                             claim_shared("resolver", h.sub[1].target[1], h.secret, receiver)
                       /\ goto("done")
                    \/ UNCHANGED suiVars /\ goto("failed")
                 /\ UNCHANGED ethVars
            [] h.pc = "withdraw" ->
                 \* the escrow accepts the withdraw, or the call rejects
                 /\ IF escrowWithdrawOk(h.sub[1].target[1], h.secret)
                    THEN \/ escrowWithdraw(h.sub[1].target[1], h.secret) /\ goto("done")
                         \/ UNCHANGED ethVars /\ goto("threw")
                    ELSE UNCHANGED ethVars /\ goto("threw")
                 /\ UNCHANGED suiVars
       /\ UNCHANGED <<fileVars, scriptVars, relayerUp, secretHashToEscrow, watch>>

Tick == SuiTick /\ UNCHANGED <<ethVars, fileVars, scriptVars, relayerVars>>

Init ==
    /\ SuiInit
    /\ ethEscrows = <<>>
    /\ timelocks = [script |-> "none", values |-> <<>>, word |-> <<>>]
    /\ balanceOf = <<>>
    /\ escrow = <<>>
    /\ generatedSecret = <<>>
    /\ secretMapping = <<>>
    /\ makerPc = "start"
    /\ makerLocal = <<>>
    /\ dstPc = "start"
    /\ srcPc = "start"
    /\ resolverPc = "start"
    /\ resolverLocal = <<>>
    /\ findPc = "start"
    /\ scriptMapping = [maker |-> <<>>, dst |-> <<>>, find |-> <<>>]
    /\ mappingTorn = FALSE
    /\ relayerUp = FALSE
    /\ secretHashToEscrow = <<>>
    /\ handlers = <<>>
    /\ watch = [pc |-> "off", env |-> {}, sui |-> "none", eth |-> "none",
                suiFrom |-> 0, ethFrom |-> {}]

\* the relayer's steps
relayerNext ==
    \/ relayerStart
    \/ watchSuiEvents_onMessage
    \/ watchEthereumEvents_onLog
    \/ \E i \in DOMAIN handlers : relayerResume(i)

\* Sui -> Ethereum swap: maker.ts, deployDstEscrow.ts, the relayer,
\* completeSwap.ts and simulateComplete.ts
Next ==
    \/ makerLock_tx
    \/ makerLock_persist
    \/ deployDst_tx
    \/ deployDst_persist
    \/ completeSwap
    \/ simulateComplete
    \/ partyRefund
    \/ relayerNext
    \/ Tick

Spec == Init /\ [][Next]_vars

\* the same, with the event loop of the relayer running every handler whose
\* awaited promise has settled; events, scripts and the clock are not forced
FairSpec ==
    Spec /\ \A i \in 1..MaxDeliveries : WF_vars(i \in DOMAIN handlers /\ relayerResume(i))

\* Ethereum -> Sui swap: deploySrcEscrow.ts and resolver_sui.ts on the secret
\* file written by maker.ts, and the relayer
NextEthSui ==
    \/ makerLock_tx
    \/ makerLock_persist
    \/ deploySrc_tx
    \/ deploySrc_persist
    \/ resolverSui_lock
    \/ resolverSui_persist
    \/ resolverSui_claim
    \/ simulateComplete
    \/ partyRefund
    \/ relayerNext
    \/ Tick

SpecEthSui == Init /\ [][NextEthSui]_vars

SuiNext ==
    /\ SuiCall \/ SuiTick
    /\ UNCHANGED <<ethVars, fileVars, scriptVars, relayerVars>>

SpecSui == Init /\ [][SuiNext]_vars

\* the scripts of a Sui -> Ethereum swap at the grain of their file
\* operations, and the start of the relayer
FilesNext ==
    \/ makerLock_tx
    \/ makerLock_exit
    \/ makerLock_read
    \/ makerLock_write
    \/ deployDst_tx
    \/ deployDst_read
    \/ deployDst_write
    \/ findAndClaim_read
    \/ findAndClaim_write
    \/ findAndClaim_claim
    \/ relayerStart

SpecFiles == Init /\ [][FilesNext]_vars

(***************************************************************************)
(* The relayer statement by statement: the settings read from the          *)
(* environment, the two subscriptions of main, and the events and logs     *)
(* that the ledgers hand to the subscriptions.                             *)
(***************************************************************************)
\* the settings of relayer.ts and the environment names each is read from
envNamesOf ==
    [ETH_RPC_URL |-> {"ETH_RPC_URL", "SEPOLIA_RPC"},
     ETH_PRIVATE_KEY |-> {"PRIVATE_KEY", "ETH_PRIVATE_KEY"},
     ESCROW_FACTORY |-> {"ESCROW_FACTORY"},
     SUI_RPC_URL |-> {"SUI_RPC", "SUI_RPC_URL"},
     SUI_KEY |-> {"SUI_KEYPAIR", "SUI_KEY"}]

\* the settings whose expression ends in || "<literal>"
hardCoded == {"ETH_RPC_URL", "ETH_PRIVATE_KEY", "ESCROW_FACTORY", "SUI_RPC_URL", "SUI_KEY"}

\* process.env.A || process.env.B || "<literal>": where the value comes from,
\* "" when every operand is falsy
setting(env, name) ==
    IF envNamesOf[name] \cap env # {} THEN "env"
    ELSE IF name \in hardCoded THEN "literal"
    ELSE ""

\* if (!ETH_RPC_URL || !ETH_PRIVATE_KEY || ...) throw
envCheckThrows(env) == \E name \in DOMAIN envNamesOf : setting(env, name) = ""

\* the environments the relayer is started in: every name defined, the Sui key
\* undefined, the Ethereum endpoint undefined, nothing defined
Environments ==
    LET all == UNION {envNamesOf[name] : name \in DOMAIN envNamesOf}
    IN {all, all \ envNamesOf.SUI_KEY, all \ envNamesOf.ETH_RPC_URL, {}}

\* the settings that the environment does not define
undefinedSettings(env) == {name \in DOMAIN envNamesOf : envNamesOf[name] \cap env = {}}

\* the module is loaded: settings, the check on them, providers, the mapping
\* file; then main is called
relayer_load ==
    /\ watch.pc = "off"
    /\ ~ relayerUp
    /\ \E env \in Environments :
          IF envCheckThrows(env)
          THEN /\ watch' = [watch EXCEPT !.pc = "exited", !.env = env]
               /\ UNCHANGED <<relayerUp, secretHashToEscrow>>
          ELSE /\ watch' = [watch EXCEPT !.pc = "watchSuiEvents", !.env = env]
               /\ relayerUp' = TRUE
               /\ secretHashToEscrow' = loadMapping
    /\ UNCHANGED <<suiVars, ethVars, fileVars, scriptVars, handlers>>

\* main: await watchSuiEvents() - subscribeEvent resolves; events emitted from
\* now on are handed to onMessage
main_watchSuiEvents ==
    /\ watch.pc = "watchSuiEvents"
    /\ watch' = [watch EXCEPT !.pc = "watchEthereumEvents", !.sui = "open",
                              !.suiFrom = Len(suiEvents)]
    /\ UNCHANGED <<suiVars, ethVars, fileVars, scriptVars, relayerUp, secretHashToEscrow,
                   handlers>>

\* main: await watchSuiEvents() - subscribeEvent rejects, main rejects, and
\* main().catch logs the error and calls process.exit(1)
main_watchSuiEvents_rejected ==
    /\ watch.pc = "watchSuiEvents"
    /\ watch' = [watch EXCEPT !.pc = "exited", !.sui = "rejected"]
    /\ relayerUp' = FALSE
    /\ UNCHANGED <<suiVars, ethVars, fileVars, scriptVars, secretHashToEscrow, handlers>>

\* main: await watchEthereumEvents() - ethProvider.on registers the listener;
\* logs of later blocks are handed to it
main_watchEthereumEvents ==
    /\ watch.pc = "watchEthereumEvents"
    /\ watch' = [watch EXCEPT !.pc = "running", !.eth = "open",
                              !.ethFrom = {a \in DOMAIN ethEscrows : ethEscrows[a].logs # <<>>}]
    /\ UNCHANGED <<suiVars, ethVars, fileVars, scriptVars, relayerUp, secretHashToEscrow,
                   handlers>>

\* the MoveEventType of the filter handed to subscribeEvent
eventType == "shared_locker::SrcSecretRevealed"

\* the Sui node hands event k, emitted after the subscription was opened and
\* of the subscribed type, to onMessage
watchSuiEvents_deliver(k) ==
    /\ relayerUp
    /\ watch.sui = "open"
    /\ k \in DOMAIN suiEvents
    /\ k > watch.suiFrom
    /\ suiEvents[k].type = eventType
    /\ Len(handlers) < MaxDeliveries
    /\ handlers' = Append(handlers, submitSecretToEthereum(suiEvents[k].secret))
    /\ UNCHANGED <<suiVars, ethVars, fileVars, scriptVars, relayerUp, secretHashToEscrow, watch>>

\* the topic of the filter handed to ethProvider.on
secretRevealedTopic == eventTopic("SecretRevealed(bytes32,bytes)")

\* the logs of the escrows that withdrew after the listener was registered
escrowLogs ==
    {ethEscrows[a].logs[1] :
        a \in {a \in DOMAIN ethEscrows \ watch.ethFrom : ethEscrows[a].logs # <<>>}}

\* the filter names no address: a log with the topic from any other contract
\* passes it, whatever bytes it carries
foreignLogs == {[topic |-> secretRevealedTopic, secret |-> secret] : secret \in Secrets}

\* the provider hands a log that passes the filter to the listener
watchEthereumEvents_deliver(log) ==
    /\ relayerUp
    /\ watch.eth = "open"
    /\ log.topic = secretRevealedTopic
    /\ Len(handlers) < MaxDeliveries
    /\ handlers' = Append(handlers, submitSecretToSui(secretHexOf(log.secret)))
    /\ UNCHANGED <<suiVars, ethVars, fileVars, scriptVars, relayerUp, secretHashToEscrow, watch>>

\* the flawed variant of the forge script: cancellation after 3600 s
DeployDstEscrow_run_noWithdrawal ==
    /\ "EscrowDst" \notin DOMAIN ethEscrows
    /\ \E secret \in Secrets :
          \E hashlock \in {keccak256(secret), ethers_id(secretHexOf(secret))} :
             escrowCreated("EscrowDst", hashlock, "maker", "resolver", "resolver",
                           3600)
    /\ UNCHANGED <<suiVars, fileVars, scriptVars, relayerVars>>

\* script/DeployDstEscrow.s.sol run: createDstEscrow with the hashlock of the
\* environment (taker: the deployer), cancellation after WITHDRAWAL + 3600 s
DeployDstEscrow_run ==
    /\ "EscrowDst" \notin DOMAIN ethEscrows
    /\ \E secret \in Secrets :
          \E hashlock \in {keccak256(secret), ethers_id(secretHexOf(secret))} :
             escrowCreated("EscrowDst", hashlock, "maker", "resolver", "resolver",
                           60 + 3600)
    /\ UNCHANGED <<suiVars, fileVars, scriptVars, relayerVars>>

\* any account sends withdraw with any secret to an escrow; the transactions
\* that revert change nothing
escrowCall ==
    /\ \E address \in DOMAIN ethEscrows, secret \in Secrets :
          /\ escrowWithdrawOk(address, secret)
          /\ escrowWithdraw(address, secret)
    /\ UNCHANGED <<suiVars, fileVars, scriptVars, relayerVars>>

\* the relayer started statement by statement, on a swap locked by maker.ts
\* and an escrow deployed with the forge script
RelayNext ==
    \/ makerLock_tx
    \/ makerLock_persist
    \/ DeployDstEscrow_run
    \/ escrowCall
    \/ relayer_load
    \/ main_watchSuiEvents
    \/ main_watchSuiEvents_rejected
    \/ main_watchEthereumEvents
    \/ \E log \in escrowLogs \cup foreignLogs : watchEthereumEvents_deliver(log)
    \/ \E i \in DOMAIN handlers : relayerResume(i)

SpecRelay == Init /\ [][RelayNext]_vars

\* the relayer started statement by statement, on the events of lockers that
\* any Sui account locks and claims
SuiWatchNext ==
    \/ SuiCall /\ UNCHANGED <<ethVars, fileVars, scriptVars, relayerVars>>
    \/ relayer_load
    \/ main_watchSuiEvents
    \/ main_watchSuiEvents_rejected
    \/ main_watchEthereumEvents
    \/ \E k \in DOMAIN suiEvents : watchSuiEvents_deliver(k)

SpecSuiWatch == Init /\ [][SuiWatchNext]_vars

\* any account calls locker::lock with any arguments: the Locker goes to the
\* address named as resolver
partyLock ==
    /\ \E sender \in Addr, c \in CoinIds, h \in Hashlocks, d \in Durations, r \in Addr :
          nextId <= MaxLockers /\ lock(sender, c, h, d, r)
    /\ UNCHANGED <<ethVars, fileVars, scriptVars, relayerVars>>

\* resolver_sui.ts on the secret file written by maker.ts, on a ledger where
\* Lockers may exist already
ResolverNext ==
    \/ partyLock
    \/ makerLock_tx
    \/ makerLock_persist
    \/ resolverSui_lock
    \/ resolverSui_persist
    \/ resolverSui_claim
    \/ Tick

SpecResolver == Init /\ [][ResolverNext]_vars

\* the largest number of half seconds the clock is observed past a full hour
MaxSubSteps == 3

(***************************************************************************)
(* The timelocks word of the deploy scripts: a uint256 of eight 32-bit     *)
(* slots, written here least significant bit first.                        *)
(***************************************************************************)

\* BigInt(val) of a number below 2^31; uint256(60) of the forge script
BigInt(val) == [i \in 1..256 |-> IF i > 31 THEN 0 ELSE (val \div 2^(i - 1)) % 2]

\* the cast uint32(x) of a uint256 keeps its low 32 bits
uint32(x) == [i \in 1..256 |-> IF i <= 32 THEN x[i] ELSE 0]

\* x << n on 256 bits
shl(x, n) == [i \in 1..256 |-> IF i > n THEN x[i - n] ELSE 0]

\* x | y
bor(x, y) == [i \in 1..256 |-> IF x[i] = 1 \/ y[i] = 1 THEN 1 ELSE 0]

\* x + y of two uint32: bit 33 of the sum is the overflow that makes checked
\* arithmetic revert
addU32(x, y) ==
    LET c[i \in 0..33] == IF i = 0 THEN 0 ELSE (x[i] + y[i] + c[i - 1]) \div 2
    IN [i \in 1..256 |-> IF i <= 33 THEN (x[i] + y[i] + c[i - 1]) % 2 ELSE 0]

\* const slot = (val, index) => BigInt(val) << (BigInt(index) * 32n)
slot(val, index) == shl(BigInt(val), index * 32)

\* a variant of the word of the forge script that writes the cancellation
\* into slot 5
timelocksU256_slot5(withdrawal, pubWithdrawal, cancellationSecs) ==
    bor(bor(shl(withdrawal, 4 * 32), shl(pubWithdrawal, 5 * 32)),
        shl(cancellationSecs, 5 * 32))

\* uint256 timelocksU256 of the forge script
timelocksU256(withdrawal, pubWithdrawal, cancellationSecs) ==
    bor(bor(shl(withdrawal, 4 * 32), shl(pubWithdrawal, 5 * 32)),
        shl(cancellationSecs, 6 * 32))

\* script/DeployDstEscrow.s.sol run, up to the timelocks word, on any
\* environment: WITHDRAWAL, PUB_WITHDRAWAL and CANCELLATION are absent or hold
\* 0, 60, 3600, 2^31, 2^32 - 1 or 2^32 + 60. The defaults withdrawal + 60 and
\* withdrawal + 3600 are computed in uint32 before envOr is called, and revert
\* the script when they overflow.
DeployDstEscrow_timelocks ==
    /\ timelocks.script = "none"
    /\ \E WITHDRAWAL, PUB_WITHDRAWAL, CANCELLATION \in
             {Absent, BigInt(0), BigInt(60), BigInt(3600),
              [i \in 1..256 |-> IF i = 32 THEN 1 ELSE 0],
              [i \in 1..256 |-> IF i <= 32 THEN 1 ELSE 0],
              [i \in 1..256 |-> IF i = 33 THEN 1 ELSE BigInt(60)[i]]} :
          LET envOr(value, default) == IF value = Absent THEN default ELSE value
              withdrawal == uint32(envOr(WITHDRAWAL, BigInt(60)))
              pubDefault == addU32(withdrawal, BigInt(60))
              cancelDefault == addU32(withdrawal, BigInt(3600))
              pubWithdrawal == uint32(envOr(PUB_WITHDRAWAL, pubDefault))
              cancellationSecs == uint32(envOr(CANCELLATION, cancelDefault))
          IN IF pubDefault[33] = 1 \/ cancelDefault[33] = 1
             THEN timelocks' = [script |-> "reverted", values |-> <<>>, word |-> <<>>]
             ELSE timelocks' =
                     [script |-> "DeployDstEscrow.s.sol",
                      values |-> <<withdrawal, pubWithdrawal, cancellationSecs>>,
                      word |-> timelocksU256(withdrawal, pubWithdrawal,
                                            cancellationSecs)]
    /\ UNCHANGED <<suiVars, ethEscrows, balanceOf, escrow, fileVars, scriptVars,
                   relayerVars>>

\* deployDstEscrow.ts main, the timelocks word
deployDst_timelocks ==
    /\ timelocks.script = "none"
    /\ timelocks' = [script |-> "deployDstEscrow.ts",
                     values |-> <<BigInt(60), BigInt(120), BigInt(cancellation)>>,
                     word |-> bor(bor(slot(60, 4), slot(120, 5)),
                                  slot(cancellation, 6))]
    /\ UNCHANGED <<suiVars, ethEscrows, balanceOf, escrow, fileVars, scriptVars,
                   relayerVars>>

\* deploySrcEscrow.ts main, the timelocks word
deploySrc_timelocks ==
    /\ timelocks.script = "none"
    /\ timelocks' = [script |-> "deploySrcEscrow.ts",
                     values |-> <<BigInt(60), BigInt(120), BigInt(cancellation),
                                  BigInt(7200)>>,
                     word |-> bor(bor(bor(slot(60, 0), slot(120, 1)),
                                      slot(cancellation, 2)), slot(7200, 3))]
    /\ UNCHANGED <<suiVars, ethEscrows, balanceOf, escrow, fileVars, scriptVars,
                   relayerVars>>

\* each deploy script, on any environment
TimelocksNext ==
    \/ DeployDstEscrow_timelocks
    \/ deployDst_timelocks
    \/ deploySrc_timelocks

SpecTimelocks == Init /\ [][TimelocksNext]_vars

(***************************************************************************)
(* The forge tests of the escrows: EscrowSrcTest and EscrowDstTest. The    *)
(* escrow contracts and the ERC-20 base of MockUSDC are library code;      *)
(* amounts are counted in USDC (10^6 units of the token).                  *)
(***************************************************************************)

\* the largest number of seconds a test warps past a deadline
MaxWarp == 3

\* new MockUSDC(initialSupply): the supply is minted to the deployer
MockUSDC(deployer, initialSupply) ==
    [holder \in {"this", "maker", "taker", "escrow"} |->
        IF holder = deployer THEN initialSupply ELSE 0]

\* token.transfer(to, amount) sent by from
transfer(balances, from, to, amount) ==
    [balances EXCEPT ![from] = @ - amount, ![to] = @ + amount]

\* a payee that is the maker on both escrows
payee_maker(kind, immutables, sender) == immutables.maker

\* a payee that is the caller on both escrows
payee_sender(kind, immutables, sender) == sender

\* the account paid by withdraw: the caller on the source escrow, the maker
\* on the destination escrow
payee(kind, immutables, sender) ==
    IF kind = "EscrowSrc" THEN sender ELSE immutables.maker

\* escrow.withdraw(secret, immutables) sent by sender: it goes through for
\* the taker, with the immutables of the clone and the secret of the
\* hashlock, from the withdrawal time on and before the cancellation time;
\* otherwise it reverts
withdraw(sender, secret, immutables) ==
    IF /\ escrow[1].status = "Locked"
       /\ immutables = escrow[1].immutables
       /\ sender = immutables.taker
       /\ keccak256(secret) = immutables.hashlock
       /\ ethNow >= immutables.deployedAt + immutables.withdrawal
       /\ ethNow < immutables.deployedAt + immutables.cancellation
    THEN /\ escrow' = <<[escrow[1] EXCEPT !.status = "Claimed"]>>
         /\ balanceOf' = transfer(balanceOf, "escrow",
                                  payee(escrow[1].kind, immutables, sender),
                                  immutables.amount)
    ELSE UNCHANGED <<escrow, balanceOf>>

\* the clone of that contract is Locked and the block timestamp is inside its
\* withdrawal window: at or after deployedAt + 0, before deployedAt + 1 days
inWindow(kind) ==
    /\ escrow # <<>>
    /\ escrow[1].kind = kind
    /\ escrow[1].status = "Locked"
    /\ ethNow >= escrow[1].immutables.deployedAt + escrow[1].immutables.withdrawal
    /\ ethNow < escrow[1].immutables.deployedAt + escrow[1].immutables.cancellation

\* EscrowSrcTest.setUp: the maker is given 100,000 USDC and deposits 1,000
\* into the clone; withdrawal = 0, cancellation = 1 days
EscrowSrcTest_setUp ==
    /\ escrow = <<>>
    /\ escrow' = <<[kind |-> "EscrowSrc", status |-> "Locked",
                    immutables |-> [hashlock |-> keccak256(SecretA), maker |-> "maker",
                                    taker |-> "taker", amount |-> 1000,
                                    deployedAt |-> ethNow, withdrawal |-> 0,
                                    cancellation |-> 24 * 60 * 60]]>>
    /\ balanceOf' = transfer(transfer(MockUSDC("this", 1000000), "this", "maker", 100000),
                             "maker", "escrow", 1000)
    /\ UNCHANGED <<suiVars, ethEscrows, timelocks, fileVars, scriptVars, relayerVars>>

\* EscrowDstTest.setUp: the taker is given 100,000 USDC and deposits 2,000
\* into the clone; withdrawal = 0, cancellation = 1 days
EscrowDstTest_setUp ==
    /\ escrow = <<>>
    /\ escrow' = <<[kind |-> "EscrowDst", status |-> "Locked",
                    immutables |-> [hashlock |-> keccak256(SecretB), maker |-> "maker",
                                    taker |-> "taker", amount |-> 2000,
                                    deployedAt |-> ethNow, withdrawal |-> 0,
                                    cancellation |-> 24 * 60 * 60]]>>
    /\ balanceOf' = transfer(transfer(MockUSDC("this", 1000000), "this", "taker", 100000),
                             "taker", "escrow", 2000)
    /\ UNCHANGED <<suiVars, ethEscrows, timelocks, fileVars, scriptVars, relayerVars>>

\* vm.warp: the block timestamp moves on by a second or by a day
vm_warp ==
    /\ \E seconds \in {1, 24 * 60 * 60} :
          /\ ethNow + seconds <= 24 * 60 * 60 + MaxWarp
          /\ seconds = 1 => ethNow % (24 * 60 * 60) < MaxWarp
          /\ suiClock' = suiClock + seconds * 1000
    /\ UNCHANGED <<sharedLockers, ownedLockers, nextId, coinOwner, suiEvents,
                   settled, lockedAt>>
    /\ UNCHANGED <<ethVars, fileVars, scriptVars, relayerVars>>

\* testWithdraw, and the same call by either account, with either secret,
\* with the immutables of the clone or with another amount
testWithdraw ==
    /\ escrow # <<>>
    /\ \E sender \in {"maker", "taker"}, secret \in Secrets,
          immutables \in {escrow[1].immutables,
                          [escrow[1].immutables EXCEPT !.amount = @ + 1]} :
          withdraw(sender, secret, immutables)
    /\ UNCHANGED <<suiVars, ethEscrows, timelocks, fileVars, scriptVars, relayerVars>>

ForgeTestNext ==
    \/ EscrowSrcTest_setUp
    \/ EscrowDstTest_setUp
    \/ vm_warp
    \/ testWithdraw

SpecForgeTests == Init /\ [][ForgeTestNext]_vars

\* the clock read between two full hours: clock::timestamp_ms counts
\* milliseconds, block.timestamp the whole seconds of the same instant
SubTick ==
    /\ suiClock % durationMs < MaxSubSteps * 500
    /\ suiClock' = suiClock + 500
    /\ UNCHANGED <<sharedLockers, ownedLockers, nextId, coinOwner, suiEvents,
                   settled, lockedAt>>
    /\ UNCHANGED <<ethVars, fileVars, scriptVars, relayerVars>>

\* the deadlines of a Sui -> Ethereum swap: maker.ts, then either deploy
\* script of the destination escrow, at any reading of the clock
DeadlinesNext ==
    \/ makerLock_tx
    \/ makerLock_persist
    \/ deployDst_tx
    \/ deployDst_persist
    \/ DeployDstEscrow_run
    \/ SubTick
    \/ Tick

SpecDeadlines == Init /\ [][DeadlinesNext]_vars

\* several swaps recorded by runs of maker.ts, and the relayer on events of
\* any content
SwapsNext ==
    \/ \E sender \in Addr : makerLock_txAs(sender)
    \/ makerLock_persist
    \/ makerAgain
    \/ relayerStart
    \/ watchSuiEvents_onMessage
    \/ watchSuiEvents_onMalformed
    \/ watchEthereumEvents_onLog
    \/ watchEthereumEvents_onMalformed
    \/ \E i \in DOMAIN handlers : relayerResume(i)

SpecSwaps == Init /\ [][SwapsNext]_vars


(***************************************************************************)
(* Properties of the Sui locker modules.                                   *)
(***************************************************************************)
\* a call that goes through: the transaction is executed and not aborted
ClaimSharedSucceeds(sender, id, secret, receiver) ==
    /\ claim_shared(sender, id, secret, receiver)
    /\ id \notin DOMAIN sharedLockers'
ClaimSucceeds(sender, id, secret, receiver) ==
    /\ claim(sender, id, secret, receiver)
    /\ id \notin DOMAIN ownedLockers'
RefundSharedSucceeds(sender, id) ==
    /\ refund_shared(sender, id)
    /\ id \notin DOMAIN sharedLockers'
RefundSucceeds(sender, id) ==
    /\ refund(sender, id)
    /\ id \notin DOMAIN ownedLockers'

\* C7 (original): on both modules a claim on a live locker succeeds iff it is
\* executed strictly before unlock_date and the module's hash of the secret
\* equals the hashlock, whoever the caller and the receiver are.
C7_ClaimIffDeadlineAndHash ==
    /\ \A id \in DOMAIN sharedLockers, sender \in Addr, s \in Secrets, r \in Addr :
          (ENABLED ClaimSharedSucceeds(sender, id, s, r))
             <=> (/\ suiClock < sharedLockers[id].unlock_date
                  /\ sha3_256(s) = sharedLockers[id].hashlock)
    /\ \A id \in DOMAIN ownedLockers, sender \in Addr, s \in Secrets, r \in Addr :
          (ENABLED ClaimSucceeds(sender, id, s, r))
             <=> (/\ suiClock < ownedLockers[id].unlock_date
                  /\ blake2b(s) = ownedLockers[id].hashlock)

\* C7 (amended): shared_locker::claim_shared succeeds iff before unlock_date
\* and sha3_256(secret) = hashlock, whoever calls; locker::claim succeeds iff
\* before unlock_date, blake2b256(secret) = hashlock and the caller owns the
\* Locker object (the resolver it was transferred to); the receiver never
\* matters.
C7_ClaimIffDeadlineHashAndOwner ==
    /\ \A id \in DOMAIN sharedLockers, sender \in Addr, s \in Secrets, r \in Addr :
          (ENABLED ClaimSharedSucceeds(sender, id, s, r))
             <=> (/\ suiClock < sharedLockers[id].unlock_date
                  /\ sha3_256(s) = sharedLockers[id].hashlock)
    /\ \A id \in DOMAIN ownedLockers, sender \in Addr, s \in Secrets, r \in Addr :
          (ENABLED ClaimSucceeds(sender, id, s, r))
             <=> (/\ suiClock < ownedLockers[id].unlock_date
                  /\ blake2b(s) = ownedLockers[id].hashlock
                  /\ sender = ownedLockers[id].owner)

\* a Locker of module locker has been claimed by its owner, and the caller
\* was not the party that locked the funds
C7_Witness ==
    \E id \in DOMAIN settled :
        /\ lockedAt[id].module = "locker"
        /\ lockedAt[id].resolver # lockedAt[id].maker
        /\ Len(settled[id]) = 1
        /\ settled[id][1].op = "claim"

\* C8: on both modules a refund on a live locker succeeds iff it is executed
\* at or after unlock_date and the caller is the maker recorded at lock time.
C8_RefundIffDeadlineAndMaker ==
    /\ \A id \in DOMAIN sharedLockers, sender \in Addr :
          (ENABLED RefundSharedSucceeds(sender, id))
             <=> (/\ suiClock >= sharedLockers[id].unlock_date
                  /\ sender = sharedLockers[id].maker)
    /\ \A id \in DOMAIN ownedLockers, sender \in Addr :
          (ENABLED RefundSucceeds(sender, id))
             <=> (/\ suiClock >= ownedLockers[id].unlock_date
                  /\ sender = ownedLockers[id].maker)

\* C9: a locker is settled at most once, by a claim or by a refund and never
\* both, and once it is settled every claim and refund on it fails.
C9_TerminalExclusive ==
    \A id \in DOMAIN settled :
        /\ Len(settled[id]) <= 1
        /\ Len(settled[id]) = 1 =>
              /\ id \notin DOMAIN sharedLockers
              /\ id \notin DOMAIN ownedLockers
              /\ \A sender \in Addr :
                    /\ ~ ENABLED <<refund_shared(sender, id)>>_suiVars
                    /\ ~ ENABLED <<refund(sender, id)>>_suiVars
                    /\ \A s \in Secrets, r \in Addr :
                          /\ ~ ENABLED <<claim_shared(sender, id, s, r)>>_suiVars
                          /\ ~ ENABLED <<claim(sender, id, s, r)>>_suiVars

\* a locker has been settled while the clock leaves room for further calls
C9_Witness ==
    \E id \in DOMAIN settled : Len(settled[id]) = 1 /\ suiClock < MaxTime * durationMs

\* C10: the coin of a claimed SharedLocker goes to the resolver recorded by
\* maker_lock, whoever submits the claim.
C10_ClaimPaysRecordedResolver ==
    \A id \in DOMAIN settled :
        (/\ lockedAt[id].module = "shared_locker"
         /\ Len(settled[id]) >= 1
         /\ settled[id][1].op = "claim")
            => settled[id][1].to = lockedAt[id].resolver

(***************************************************************************)
(* Properties of the relayer and of the scripts.                           *)
(***************************************************************************)
\* the claim submissions made for revelations of one secret from one ledger
submissionsFor(src, secret) ==
    {i \in DOMAIN handlers : /\ handlers[i].src = src
                             /\ handlers[i].secret = secret
                             /\ handlers[i].sub # <<>>}

\* a handler has run to its end
finished(h) == h.pc \in {"skipped", "threw", "done", "failed"}

\* C1: whatever number of times the same revelation event (same source ledger,
\* same secret) is delivered, at most one claim is submitted to the counterpart
\* ledger for it.
C1_AtMostOneSubmission ==
    \A src \in {"sui", "ethereum"}, secret \in Secrets :
        Cardinality(submissionsFor(src, secret)) <= 1

\* the hash keys under which the scripts record the locks of a secret
keysOf(secret) == {ethers_id(secretHexOf(secret)), blake2b(secret)}

\* the ledgers for which the relayer's mapping holds a lock reference of the secret
sidesRecorded(secret) ==
    {"sui" : k \in {k \in keysOf(secret) \cap DOMAIN secretHashToEscrow :
                       secretHashToEscrow[k].lockerId # Absent}}
    \cup {"ethereum" : k \in {k \in keysOf(secret) \cap DOMAIN secretHashToEscrow :
                                 secretHashToEscrow[k].escrowAddress # Absent}}

\* C2 (original): a claim is submitted for a revealed secret only when the
\* mapping holds the lock references of both sides of its swap.
C2_NoSubmissionWhenOneSided ==
    \A i \in DOMAIN handlers :
        handlers[i].sub # <<>> => sidesRecorded(handlers[i].secret) = {"sui", "ethereum"}

\* C2 (amended): a claim is submitted to a ledger only when the mapping holds a
\* lock reference for that ledger under a hash key of the revealed secret, and it
\* goes to that reference; a revelation never causes a submission to a ledger
\* whose reference is missing, nor to the ledger it came from.
C2_NoSubmissionWithoutTargetRef ==
    \A i \in DOMAIN handlers :
        handlers[i].sub # <<>> =>
            /\ handlers[i].sub[1].ledger \in sidesRecorded(handlers[i].secret)
            /\ handlers[i].sub[1].ledger # handlers[i].src
            /\ \E k \in keysOf(handlers[i].secret) \cap DOMAIN secretHashToEscrow :
                  IF handlers[i].sub[1].ledger = "sui"
                  THEN secretHashToEscrow[k].lockerId = handlers[i].sub[1].target
                  ELSE secretHashToEscrow[k].escrowAddress = handlers[i].sub[1].target

\* a revelation from Sui was handled to its end while only the Sui locker of its
\* secret was recorded, and a revelation from Ethereum of a secret with only the
\* Sui locker recorded led to a submission to Sui
C2_Witness ==
    /\ \E i \in DOMAIN handlers :
          /\ handlers[i].src = "sui"
          /\ finished(handlers[i])
          /\ handlers[i].mapping # <<>>
          /\ sidesRecorded(handlers[i].secret) = {"sui"}
          /\ handlers[i].sub = <<>>
    /\ \E i \in DOMAIN handlers :
          /\ handlers[i].src = "ethereum"
          /\ sidesRecorded(handlers[i].secret) = {"sui"}
          /\ handlers[i].sub # <<>>

\* the forwarded marker of a mapping entry
isForwarded(mapping, key) ==
    /\ key \in DOMAIN mapping
    /\ "forwarded" \in DOMAIN mapping[key]
    /\ mapping[key].forwarded

\* C3: when the Sui lock and the Ethereum lock of a secret are both recorded, a
\* revelation of the secret from Sui, once handled, has led to a claim submitted
\* to the recorded Ethereum escrow, and the entry is marked forwarded.
C3_HappyPathForwards ==
    \A i \in DOMAIN handlers :
        LET key == ethers_id(secretHexOf(handlers[i].secret))
        IN (/\ handlers[i].src = "sui"
            /\ finished(handlers[i])
            /\ sidesRecorded(handlers[i].secret) = {"sui", "ethereum"})
           => /\ handlers[i].sub # <<>>
              /\ handlers[i].sub[1].target = secretHashToEscrow[key].escrowAddress
              /\ \/ isForwarded(secretHashToEscrow, key)
                 \/ isForwarded(secretMapping, key)

\* C4: the Sui locker and the Ethereum escrow of one swap never end with one
\* claimed and the other refunded, the relayer running with both locks recorded
\* and the revelation delivered to it.
C4_BothClaimedOrBothRefunded ==
    \A id \in DOMAIN settled, address \in DOMAIN ethEscrows :
        (/\ resolverLocal = <<id>>
         /\ Len(settled[id]) = 1
         /\ ethEscrows[address].status # "Locked"
         /\ relayerUp
         /\ \E i \in DOMAIN handlers :
               /\ handlers[i].src = "sui"
               /\ finished(handlers[i])
               /\ blake2b(handlers[i].secret) = lockedAt[id].hashlock
               /\ sidesRecorded(handlers[i].secret) = {"sui", "ethereum"})
        => (settled[id][1].op = "claim" <=> ethEscrows[address].status = "Claimed")

\* C5: the SharedLocker created by maker.ts stores the digest that claim_shared
\* recomputes from the generated secret, so that before unlock_date a claim with
\* that secret succeeds, whoever signs it.
C5_MakerLockerClaimable ==
    \A id \in DOMAIN sharedLockers :
        (/\ makerLocal # <<>>
         /\ makerLocal[1].finalLockerId = id
         /\ suiClock < sharedLockers[id].unlock_date)
        => /\ sharedLockers[id].hashlock = sha3_256(makerLocal[1].secret)
           /\ \A signer \in Addr :
                 ENABLED ClaimSharedSucceeds(signer, id, makerLocal[1].secret, signer)

\* C6: the hash_keccak written to generatedSecret.json, and installed as the
\* hashlock of every escrow, is Keccak256 over the raw 32 bytes of the secret.
C6_KeccakOverRawBytes ==
    generatedSecret # <<>> =>
        /\ generatedSecret[1].hash_keccak = keccak256(bytesOfHex(generatedSecret[1].secret))
        /\ \A address \in DOMAIN ethEscrows :
              ethEscrows[address].hashlock
                 = keccak256(bytesOfHex(generatedSecret[1].secret))

\* the relayer found no Ethereum escrow for the revelation it handled
noEscrowSeen(h) == h.mapping = <<>> \/ h.mapping[1].escrowAddress = Absent

\* C11: a revelation from Sui that arrives while no Ethereum escrow is recorded
\* for its secret leads to no submission; and when the escrow is in
\* secretMapping.json at the time the same secret is delivered again, that
\* delivery leads to a claim submission.
C11_RedeliveryForwards ==
    [][Len(handlers') = Len(handlers) + 1 =>
          LET h == handlers'[Len(handlers')]
              key == ethers_id(secretHexOf(h.secret))
          IN h.src = "sui" =>
                /\ noEscrowSeen(h) => h.sub = <<>>
                /\ (/\ \E i \in DOMAIN handlers :
                          /\ handlers[i].src = "sui"
                          /\ handlers[i].secret = h.secret
                          /\ finished(handlers[i])
                          /\ noEscrowSeen(handlers[i])
                    /\ key \in DOMAIN secretMapping
                    /\ secretMapping[key].escrowAddress # Absent)
                   => h.sub # <<>>]_vars

\* the SharedLocker a handler submitted its claim to is live and before its
\* unlock_date
targetClaimable(h) ==
    /\ h.sub # <<>>
    /\ h.sub[1].ledger = "sui"
    /\ h.sub[1].target[1] \in DOMAIN sharedLockers
    /\ suiClock < sharedLockers[h.sub[1].target[1]].unlock_date

\* C12: a claim submission to Sui that failed while the locker stays claimable
\* is attempted again: the handler leaves its failed state, or a later
\* submission for the same secret is made, unless the locker stops being
\* claimable.
C12_FailedSubmissionRetried ==
    \A i \in 1..MaxDeliveries :
        (/\ i \in DOMAIN handlers
         /\ handlers[i].pc = "failed"
         /\ targetClaimable(handlers[i]))
        ~> (/\ i \in DOMAIN handlers
            /\ \/ handlers[i].pc # "failed"
               \/ ~ targetClaimable(handlers[i])
               \/ \E j \in DOMAIN handlers :
                     /\ j > i
                     /\ handlers[j].secret = handlers[i].secret
                     /\ handlers[j].sub # <<>>)

\* the locker a handler submitted its claim to has been settled by a claim
targetClaimed(h) ==
    /\ h.sub # <<>>
    /\ h.sub[1].ledger = "sui"
    /\ h.sub[1].target[1] \in DOMAIN settled
    /\ Len(settled[h.sub[1].target[1]]) = 1
    /\ settled[h.sub[1].target[1]][1].op = "claim"

\* C13: when the claim a handler submitted to Sui is rejected while its target
\* locker is already claimed, the entry of the secret is marked forwarded from
\* that step on.
C13_ClaimedCountsAsForwarded ==
    [][\A i \in DOMAIN handlers :
          (/\ handlers[i].pc = "signAndExecute"
           /\ handlers'[i].pc = "failed"
           /\ targetClaimed(handlers[i]))
          => \/ isForwarded(secretHashToEscrow', blake2b(handlers[i].secret))
             \/ isForwarded(secretMapping', blake2b(handlers[i].secret))]_vars

\* handler i hands a claim transaction to a ledger in this step
submits(i) ==
    /\ handlers'[i].sub # <<>>
    /\ i \in DOMAIN handlers => handlers[i].sub = <<>>

\* C14: no claim is submitted to a Sui locker once its unlock_date has passed
\* without the locker having been claimed.
C14_NoSubmissionAfterDeadline ==
    [][\A i \in DOMAIN handlers' :
          (/\ submits(i)
           /\ handlers'[i].sub[1].ledger = "sui"
           /\ handlers'[i].sub[1].target[1] \in DOMAIN lockedAt
           /\ ~ targetClaimed(handlers'[i]))
          => suiClock < lockedAt[handlers'[i].sub[1].target[1]].unlock_date]_vars

\* C15: a lock reference recorded in secretMapping.json under a hash key is
\* never replaced by a different reference for the same side.
C15_NoSilentReplace ==
    [][\A key \in DOMAIN secretMapping \cap DOMAIN secretMapping' :
          /\ (/\ secretMapping[key].lockerId # Absent
              /\ secretMapping'[key].lockerId # Absent)
             => secretMapping'[key].lockerId = secretMapping[key].lockerId
          /\ (/\ secretMapping[key].escrowAddress # Absent
              /\ secretMapping'[key].escrowAddress # Absent)
             => /\ secretMapping'[key].escrowAddress = secretMapping[key].escrowAddress
                /\ secretMapping'[key].immutables = secretMapping[key].immutables]_vars

(***************************************************************************)
(* Properties of the correlation file.                                     *)
(***************************************************************************)
\* every script that has read secretMapping.json and not yet written it holds
\* the current content: no other write came between
copiesCurrent ==
    \A script \in DOMAIN scriptMapping :
        scriptMapping[script] # <<>> => scriptMapping[script][1] = secretMapping

\* C16: a write of a lock-recording script to secretMapping.json, made on the
\* current content of the file, keeps every hash key and, under each key, the
\* lock reference of each side that was recorded.
C16_RefsPreserved ==
    [][(copiesCurrent /\ ~ mappingTorn') =>
          \A key \in DOMAIN secretMapping :
              /\ key \in DOMAIN secretMapping'
              /\ secretMapping[key].lockerId # Absent
                    => secretMapping'[key].lockerId # Absent
              /\ secretMapping[key].escrowAddress # Absent
                    => secretMapping'[key].escrowAddress # Absent]_vars

\* C17: when maker.ts stops after its lock transaction was accepted, the
\* secret is in generatedSecret.json and the locker is recorded in
\* secretMapping.json under the BLAKE2b key of the secret.
C17_StopsOnlyAfterPersisted ==
    [][(/\ makerPc \notin {"done", "exited"}
        /\ makerPc' \in {"done", "exited"}
        /\ makerLocal' # <<>>)
       => /\ generatedSecret' # <<>>
          /\ generatedSecret'[1].secret = secretHexOf(makerLocal'[1].secret)
          /\ ~ mappingTorn'
          /\ blake2b(makerLocal'[1].secret) \in DOMAIN secretMapping'
          /\ secretMapping'[blake2b(makerLocal'[1].secret)].lockerId
                = <<makerLocal'[1].finalLockerId>>]_vars

\* C18: with the file readable, the entry deployDstEscrow.ts wrote under
\* hash_keccak and the entry maker.ts wrote under hash_blake are in
\* secretMapping.json once both scripts have finished, however the reads and
\* writes of the scripts interleave.
C18_ConcurrentWritesKept ==
    (/\ ~ mappingTorn
     /\ makerPc = "done"
     /\ dstPc = "done"
     /\ findPc \in {"start", "persisted", "done"})
    => /\ blake2b(makerLocal[1].secret) \in DOMAIN secretMapping
       /\ generatedSecret[1].hash_keccak \in DOMAIN secretMapping
       /\ secretMapping[generatedSecret[1].hash_keccak].escrowAddress # Absent

\* C19: when a writer dies while rewriting secretMapping.json, every hash key
\* a relayer would have loaded from the file before is still loaded by a
\* relayer started afterwards.
C19_CrashKeepsEntries ==
    [][(~ mappingTorn /\ mappingTorn') =>
          \A key \in DOMAIN loadMapping : key \in DOMAIN loadMapping']_vars

\* a handler has handed its claim to a ledger and awaits the outcome
inFlight(h) == h.sub # <<>> /\ h.pc \in {"signAndExecute", "withdraw"}

\* C20: at no time are two claim submissions for the same secret, made for
\* deliveries from the same ledger, in flight together.
C20_OneInFlightPerHash ==
    \A i, j \in DOMAIN handlers :
        (/\ i # j
         /\ handlers[i].src = handlers[j].src
         /\ handlers[i].secret = handlers[j].secret
         /\ inFlight(handlers[i]))
        => ~ inFlight(handlers[j])

(***************************************************************************)
(* Properties of the relayer with several swaps recorded.                  *)
(***************************************************************************)
\* a handler waits for a ledger
pending(h) == h.pc \in {"getObject", "signAndExecute", "withdraw"}

\* the relayer holds a Sui locker for the secret under its BLAKE2b key
lockerRecorded(secret) == hasLocker(lookup(blake2b(secret)))

errored(h) == h.pc \in {"threw", "failed", "skipped"}

\* C24: after the handling of an event ended in an error, the relayer is
\* still running, and an event that reveals another secret can be delivered
\* from Ethereum and from Sui and is handled as if no error had occurred: the
\* Ethereum log runs submitSecretToSui on the secret, the Sui event runs
\* submitSecretToEthereum.
C24_ErrorsNeverCrash ==
    \A i \in DOMAIN handlers :
        errored(handlers[i]) =>
            /\ relayerUp
            /\ Len(handlers) < MaxDeliveries =>
                  \A secret \in Secrets \ {s \in Secrets : handlers[i].secret = s} :
                      /\ ENABLED (/\ watchEthereumEvents_onLog
                                  /\ handlers'[Len(handlers) + 1]
                                        = submitSecretToSui(secretHexOf(secret)))
                      /\ ENABLED (/\ watchSuiEvents_onMessage
                                  /\ handlers'[Len(handlers) + 1]
                                        = submitSecretToEthereum(secret))

\* the handling of one event ended in an error and the claim for a later
\* event with another secret was submitted
C24_Witness ==
    \E i, j \in DOMAIN handlers :
        /\ i < j
        /\ handlers[i].pc \in {"threw", "failed"}
        /\ handlers[j].secret # handlers[i].secret
        /\ handlers[j].sub # <<>>
        /\ relayerUp

\* the keys of the relayer's mapping that are hash keys of the secret
ownKeys(secret) == keysOf(secret) \cap DOMAIN secretHashToEscrow

relayerBlakeKey(secret) == hashSecret(bytesOfHex(secretHexOf(secret)))

\* the key the relayer computes for its lookup from the secret of a Sui
\* event: bytes of the event -> hex -> ethers.id
relayerKeccakKey(secret) == ethers_id(secretHexOf(secret))

\* C29: every key under which a script has stored an entry in
\* secretMapping.json is the BLAKE2b key or the Keccak key that the relayer
\* computes from the secret of generatedSecret.json when that secret is
\* revealed, a locker recorded by maker.ts is stored under both, and two
\* distinct secrets have distinct BLAKE2b keys and distinct Keccak keys.
C29_KeysAgree ==
    /\ generatedSecret # <<>> =>
          LET secret == bytesOfHex(generatedSecret[1].secret) IN
          /\ DOMAIN secretMapping \subseteq {relayerBlakeKey(secret), relayerKeccakKey(secret)}
          /\ generatedSecret[1].hash_keccak = relayerKeccakKey(secret)
          /\ (makerPc = "done" /\ ~ mappingTorn) =>
                /\ relayerBlakeKey(secret) \in DOMAIN secretMapping
                /\ relayerKeccakKey(secret) \in DOMAIN secretMapping
    /\ generatedSecret = <<>> => DOMAIN secretMapping = {}
    /\ \A s1, s2 \in Secrets :
          s1 # s2 => /\ relayerBlakeKey(s1) # relayerBlakeKey(s2)
                     /\ relayerKeccakKey(s1) # relayerKeccakKey(s2)

\* the relayer found, under the key it computed from a revealed secret, the
\* locker that maker.ts recorded (Ethereum log) and the entry recorded under
\* the Keccak key (Sui event)
C29_Witness ==
    /\ \E i \in DOMAIN handlers :
          /\ handlers[i].src = "ethereum"
          /\ handlers[i].mapping # <<>>
          /\ handlers[i].mapping[1].lockerId # Absent
    /\ \E i \in DOMAIN handlers :
          /\ handlers[i].src = "sui"
          /\ handlers[i].mapping # <<>>

\* C30: for every locker of either module that is unclaimed at or after its
\* unlock_date, a refund transaction sent by the maker who locked the funds
\* succeeds and returns the locked coin to the maker.
C30_MakerCanRefundAfterDeadline ==
    /\ \A id \in DOMAIN sharedLockers :
          suiClock >= sharedLockers[id].unlock_date =>
              ENABLED (/\ RefundSharedSucceeds(sharedLockers[id].maker, id)
                       /\ coinOwner'[sharedLockers[id].coin] = sharedLockers[id].maker)
    /\ \A id \in DOMAIN ownedLockers :
          suiClock >= ownedLockers[id].unlock_date =>
              ENABLED (/\ RefundSucceeds(ownedLockers[id].maker, id)
                       /\ coinOwner'[ownedLockers[id].coin] = ownedLockers[id].maker)

(***************************************************************************)
(* Properties of the start of the relayer and of its subscriptions.        *)
(***************************************************************************)
\* C22: when the Sui subscription could not be opened, the Ethereum watcher
\* is registered or can still be registered.
C22_WatchersIndependent ==
    watch.sui = "rejected" => (watch.eth = "open" \/ ENABLED main_watchEthereumEvents)

\* C25: a relayer started in an environment that leaves one of the five
\* settings undefined has stopped: it holds no subscription, handles no event
\* and has submitted nothing.
C25_MissingSettingIsFatal ==
    (watch.pc # "off" /\ undefinedSettings(watch.env) # {}) =>
        /\ watch.pc = "exited"
        /\ ~ relayerUp
        /\ watch.sui = "none"
        /\ watch.eth = "none"
        /\ handlers = <<>>

\* C26: every revelation event that a claim on either module emitted after the
\* relayer opened its Sui subscription can be handed to onMessage.
C26_EveryRevelationObserved ==
    \A k \in DOMAIN suiEvents :
        (/\ relayerUp
         /\ watch.sui = "open"
         /\ k > watch.suiFrom
         /\ Len(handlers) < MaxDeliveries)
            => ENABLED watchSuiEvents_deliver(k)

\* C27: the log of a successful withdraw, emitted after the relayer registered
\* its Ethereum listener, with a secret for which the relayer holds a Sui
\* lockerId, can be handed to the listener, which then starts the claim_shared
\* submission for that locker.
C27_WithdrawalObserved ==
    \A a \in DOMAIN ethEscrows \ watch.ethFrom :
        \A k \in DOMAIN ethEscrows[a].logs :
            (/\ relayerUp
             /\ watch.eth = "open"
             /\ Len(handlers) < MaxDeliveries
             /\ lockerRecorded(ethEscrows[a].logs[k].secret))
                => ENABLED (/\ watchEthereumEvents_deliver(ethEscrows[a].logs[k])
                            /\ handlers'[Len(handlers) + 1].pc = "getObject")

(***************************************************************************)
(* Properties of the two Move modules: events, aborts, conservation.       *)
(***************************************************************************)
\* C36: every revelation event was emitted by the one successful claim of a
\* locker whose hashlock is the module's own hash of the event's secret
\* (sha3_256 for shared_locker, blake2b256 for locker) and has the module's
\* event type; no two events come from the same locker; every claimed locker
\* has its event; a refunded locker and a locker that is still live have none.
C36_EventsSound ==
    /\ \A k \in DOMAIN suiEvents :
          LET e == suiEvents[k] IN
          /\ e.locker \in DOMAIN settled
          /\ Len(settled[e.locker]) = 1
          /\ settled[e.locker][1].op = "claim"
          /\ IF lockedAt[e.locker].module = "shared_locker"
             THEN /\ e.type = "shared_locker::SrcSecretRevealed"
                  /\ sha3_256(e.secret) = lockedAt[e.locker].hashlock
             ELSE /\ e.type = "locker::SecretRevealed"
                  /\ blake2b(e.secret) = lockedAt[e.locker].hashlock
    /\ \A k1, k2 \in DOMAIN suiEvents :
          k1 # k2 => suiEvents[k1].locker # suiEvents[k2].locker
    /\ \A id \in DOMAIN settled :
          (settled[id] # <<>> /\ settled[id][1].op = "claim")
              => \E k \in DOMAIN suiEvents : suiEvents[k].locker = id

\* a locker was claimed and its event emitted
C36_Witness ==
    /\ suiEvents # <<>>
    /\ \E id \in DOMAIN settled : settled[id] # <<>> /\ settled[id][1].op = "claim"

\* C37: on a live locker, a claim at or after unlock_date or with a secret
\* whose hash is not the hashlock, and a refund before unlock_date or, on a
\* shared locker, by another sender than the maker, change nothing on Sui:
\* lockers, coins, events and the settlement record stay as they are.
C37_RejectedCallChangesNothing ==
    /\ \A id \in DOMAIN sharedLockers, sender \in Addr :
          /\ \A s \in Secrets, r \in Addr :
                (\/ suiClock >= sharedLockers[id].unlock_date
                 \/ sha3_256(s) # sharedLockers[id].hashlock)
                   => ~ ENABLED (claim_shared(sender, id, s, r) /\ suiVars' # suiVars)
          /\ (\/ suiClock < sharedLockers[id].unlock_date
              \/ sender # sharedLockers[id].maker)
                => ~ ENABLED (refund_shared(sender, id) /\ suiVars' # suiVars)
    /\ \A id \in DOMAIN ownedLockers, sender \in Addr :
          /\ \A s \in Secrets, r \in Addr :
                (\/ suiClock >= ownedLockers[id].unlock_date
                 \/ blake2b(s) # ownedLockers[id].hashlock)
                   => ~ ENABLED (claim(sender, id, s, r) /\ suiVars' # suiVars)
          /\ suiClock < ownedLockers[id].unlock_date
                => ~ ENABLED (refund(sender, id) /\ suiVars' # suiVars)

\* a shared locker is still live at or after its unlock_date: every claim on
\* it is rejected, and so is every refund not sent by its maker
C37_Witness ==
    \E id \in DOMAIN sharedLockers :
        /\ suiClock >= sharedLockers[id].unlock_date
        /\ settled[id] = <<>>
        /\ \E sender \in Addr : sender # sharedLockers[id].maker

\* C38: the unlock_date of every locker is the clock value at lock time plus
\* duration_ms; while a locker is not settled it exists with the coin,
\* hashlock, unlock_date and maker it was locked with and its coin is held by
\* nobody; it is settled at most once, a refund pays the maker recorded at lock
\* time, and after the payout the payee holds the coin unless it has been
\* locked again.
C38_Conservation ==
    \A id \in DOMAIN lockedAt :
        LET l == lockedAt[id]
            live == IF l.module = "shared_locker" THEN sharedLockers ELSE ownedLockers
        IN /\ l.unlock_date = l.now + l.duration_ms
           /\ Len(settled[id]) <= 1
           /\ settled[id] = <<>> =>
                 /\ id \in DOMAIN live
                 /\ live[id].coin = l.coin
                 /\ live[id].hashlock = l.hashlock
                 /\ live[id].unlock_date = l.unlock_date
                 /\ live[id].maker = l.maker
                 /\ coinOwner[l.coin] = "locked"
           /\ settled[id] # <<>> =>
                 /\ id \notin DOMAIN sharedLockers
                 /\ id \notin DOMAIN ownedLockers
                 /\ settled[id][1].to \in Addr
                 /\ settled[id][1].op = "refund" => settled[id][1].to = l.maker
                 /\ \/ coinOwner[l.coin] = settled[id][1].to
                    \/ \E id2 \in DOMAIN lockedAt : id2 > id /\ lockedAt[id2].coin = l.coin

\* a locker was refunded to its maker after the clock had passed its
\* unlock_date
C38_Witness ==
    \E id \in DOMAIN settled :
        /\ settled[id] # <<>>
        /\ settled[id][1].op = "refund"
        /\ coinOwner[lockedAt[id].coin] = lockedAt[id].maker
        /\ suiClock >= lockedAt[id].unlock_date

\* C33: when the handler of a revealed secret finds no entry in the relayer's
\* mapping, it ends at once as skipped, with no error and no submission, and
\* the step changes neither the in-memory mapping nor the files nor a ledger;
\* a skipped handler never does anything afterwards; the relayer stays up and
\* the next event from either ledger can be delivered.
C33_MissIsNoOp ==
    /\ [][(/\ Len(handlers') = Len(handlers) + 1
           /\ handlers'[Len(handlers')].secret \in Secrets
           /\ handlers'[Len(handlers')].mapping = <<>>)
          => /\ handlers'[Len(handlers')].pc = "skipped"
             /\ handlers'[Len(handlers')].sub = <<>>
             /\ secretHashToEscrow' = secretHashToEscrow
             /\ UNCHANGED <<fileVars, suiVars, ethVars>>
             /\ relayerUp']_vars
    /\ [][\A i \in DOMAIN handlers :
             handlers[i].pc = "skipped" => handlers'[i] = handlers[i]]_vars
    /\ [](\A i \in DOMAIN handlers :
             (handlers[i].pc = "skipped" /\ Len(handlers) < MaxDeliveries)
                => /\ relayerUp
                   /\ ENABLED watchSuiEvents_onMessage
                   /\ ENABLED watchEthereumEvents_onLog)

\* a revelation from Ethereum found no entry while the relayer held the
\* locker of another secret, and a later revelation of that secret had its
\* claim submitted
C33_Witness ==
    \E i, j \in DOMAIN handlers :
        /\ i < j
        /\ handlers[i].pc = "skipped"
        /\ handlers[i].mapping = <<>>
        /\ handlers[i].src = "ethereum"
        /\ secretHashToEscrow # <<>>
        /\ handlers[j].sub # <<>>

(***************************************************************************)
(* Properties of the lock-recording scripts.                               *)
(***************************************************************************)
\* C35: every lockerId stored in secretMapping.json under a hash key of a
\* secret is the id of a Sui locker that was locked with a hash of that secret.
C35_SoundCorrelation ==
    \A k \in DOMAIN secretMapping :
        secretMapping[k].lockerId # Absent =>
            /\ secretMapping[k].lockerId[1] \in DOMAIN lockedAt
            /\ \E s \in Secrets :
                  /\ k \in keysOf(s)
                  /\ lockedAt[secretMapping[k].lockerId[1]].hashlock
                        \in {blake2b(s), sha3_256(s)}

(***************************************************************************)
(* Deadlines of the two chains.                                            *)
(***************************************************************************)

====
